---- MODULE Spec2Model ----
(***************************************************************************)
(* The graph synchronisation and event derivation engine of fullstori:     *)
(* the persisted store (DAG, DAGNode, DAGEdge, Event, EventType, Entity,   *)
(* Role rows) and the route handlers that read and write it.               *)
(***************************************************************************)
EXTENDS Integers, Sequences, FiniteSets, TLC

VARIABLES
    dags,        \* DAG rows: graph id -> [name]
    roles,       \* Role rows: role id -> [name, category, isSystem]
    entities,    \* Entity rows: entity id -> [name, roleId, description]
    nodes,       \* DAGNode rows: node id -> [dagId, entityId, x, y, type]
    edges,       \* DAGEdge rows: edge id -> [dagId, sourceId, targetId, label, relationshipTypeId, createdFromEventId]
    events,      \* Event rows: event id -> [dagId, title, date, ...]
    eventTypes,  \* EventType rows: event type id -> [name]
    eventSeq,    \* how many Event rows were ever created (their ids are never reused)
    resp,        \* the last handler's request summary and response
    timeoutId,   \* AutoSave.timeoutId: the handle of the last timer set, 0 for null
    isSaving,    \* AutoSave.isSaving
    timers,      \* the timers set and neither fired nor cleared
    inFlight,    \* how many onSave invocations have started and not settled
    saveLog,     \* what the AutoSave instance did last
    backup,      \* whether localStorage holds the item 'madlanga_autosave_backup'
    unsavedTrigger, \* history: "pending" from a trigger(data) until a save starts,
                 \* "sending" while that save is in flight, "none" once it succeeded
    relationshipTypes, \* RelationshipType rows: id -> [name, category]
    canvas,      \* the graph view's nodes and edges state (React Flow)
    allNodes,    \* the timeline view's allNodes state
    creating,    \* the entity a 'Create New' target is waiting to get its node for
    nodeSeq,     \* how many node ids the views have generated
    hasUnsavedChanges, \* the graph view's hasUnsavedChanges state
    effectSeen,  \* the canvas and hasUnsavedChanges the trigger effect last ran for
    requested,   \* the canvas the last saveGraph request of the auto-save carried
    handlers     \* route handlers awaiting their next store call: id -> [op, ...]

\* the fields of the editor's AutoSave instance
autoSaveVars == <<timeoutId, isSaving, timers, inFlight, saveLog, backup, unsavedTrigger>>

\* the persisted rows and the last response
storeVars == <<dags, roles, entities, nodes, edges, events, eventTypes, eventSeq, resp,
               relationshipTypes>>

\* the state the two views keep in the browser
viewVars == <<canvas, allNodes, creating, nodeSeq, hasUnsavedChanges, effectSeen, requested>>

\* what the trigger effect ran for and what the auto-save sent
effectVars == <<effectSeen, requested>>

vars == <<dags, roles, entities, nodes, edges, events, eventTypes, eventSeq, resp,
          timeoutId, isSaving, timers, inFlight, saveLog, backup, unsavedTrigger,
          relationshipTypes, canvas, allNodes, creating, nodeSeq,
          hasUnsavedChanges, effectSeen, requested, handlers>>

\* JavaScript null / SQL NULL, and JavaScript undefined (an absent JSON key)
Null == "null"
Undef == "undefined"

\* the JavaScript booleans, as they arrive in a JSON body
JsTrue == "js:true"
JsFalse == "js:false"

\* a JavaScript value is falsy when it is undefined, null, "" or false
Falsy(v) == v \in {Undef, Null, "", JsFalse}

Truthy(v) == ~Falsy(v)

-----------------------------------------------------------------------------
(* Strings *)

\* one character of String.prototype.toLowerCase, over the letters used here
LowerChar(c) ==
    CASE c = "A" -> "a" [] c = "B" -> "b" [] c = "C" -> "c" [] c = "D" -> "d"
      [] c = "E" -> "e" [] c = "I" -> "i" [] c = "L" -> "l" [] c = "N" -> "n"
      [] c = "R" -> "r" [] c = "S" -> "s" [] c = "T" -> "t" [] c = "V" -> "v"
      [] c = "W" -> "w" [] OTHER -> c

RECURSIVE ToLowerCase(_)
ToLowerCase(s) ==
    IF s = "" THEN ""
    ELSE LowerChar(SubSeq(s, 1, 1)) \o ToLowerCase(Tail(s))

\* String.prototype.includes
Includes(s, pat) ==
    \E i \in 1..(Len(s) - Len(pat) + 1) : SubSeq(s, i, i + Len(pat) - 1) = pat

RECURSIVE TrimStart(_)
TrimStart(s) ==
    IF s # "" /\ SubSeq(s, 1, 1) = " " THEN TrimStart(Tail(s)) ELSE s

RECURSIVE TrimEnd(_)
TrimEnd(s) ==
    IF s # "" /\ SubSeq(s, Len(s), Len(s)) = " "
    THEN TrimEnd(SubSeq(s, 1, Len(s) - 1)) ELSE s

\* String.prototype.trim
Trim(s) == TrimEnd(TrimStart(s))

-----------------------------------------------------------------------------
(* Identifiers and the seeded store *)

\* ids the client supplies for the nodes of graph g1 (n0 is its root)
ClientNodeIds == {"n0", "n1", "n2"}

\* ids the client supplies for the edges it draws
ClientEdgeIds == {"ea", "eb"}

\* positions the canvas reports
Origin == [x |-> 0, y |-> 0]

Points == {Origin, [x |-> 300, y |-> 150]}

RoleRows ==
    [r \in {"rRoot", "rWit", "rLead"} |->
        CASE r = "rRoot" -> [name |-> "Root", category |-> "official", isSystem |-> TRUE]
          [] r = "rWit"  -> [name |-> "Witness", category |-> "witness", isSystem |-> TRUE]
          [] r = "rLead" -> [name |-> "Evidence Leader", category |-> "official",
                             isSystem |-> TRUE]]

EntityRows ==
    [e \in {"e0", "e1", "e2", "f0"} |->
        CASE e = "e0" -> [name |-> "Inquiry", roleId |-> "rRoot", description |-> Null]
          [] e = "e1" -> [name |-> "Ann", roleId |-> "rWit", description |-> Null]
          [] e = "e2" -> [name |-> "Bob", roleId |-> "rWit", description |-> Null]
          [] e = "f0" -> [name |-> "Other", roleId |-> "rRoot", description |-> Null]]

NodeRow(g, e, p, t) == [dagId |-> g, entityId |-> e, x |-> p.x, y |-> p.y, type |-> t]

\* graph g1 holds a root and two custom nodes, graph g2 only its root
NodeRows ==
    [n \in {"n0", "n1", "n2", "m0"} |->
        CASE n = "n0" -> NodeRow("g1", "e0", Origin, "root")
          [] n = "n1" -> NodeRow("g1", "e1", Origin, "custom")
          [] n = "n2" -> NodeRow("g1", "e2", Origin, "custom")
          [] n = "m0" -> NodeRow("g2", "f0", Origin, "root")]

Empty == [k \in {} |-> Null]

\* a node as a view holds it after GET /api/dag/[id]
ViewNode(e, name, roleId, p, t) ==
    [type |-> t, position |-> p, label |-> name, roleId |-> roleId,
     description |-> Undef, entityId |-> e]

\* graph g1 as both views hold it after their first load
LoadedNodes ==
    [n \in {"n0", "n1", "n2"} |->
        CASE n = "n0" -> ViewNode("e0", "Inquiry", "rRoot", Origin, "root")
          [] n = "n1" -> ViewNode("e1", "Ann", "rWit", Origin, "custom")
          [] n = "n2" -> ViewNode("e2", "Bob", "rWit", Origin, "custom")]

NoTarget == [entityId |-> Null, view |-> Null]

\* the state after construction, the views loaded, with lastResp the summary of
\* the last call made
InitWith(lastResp) ==
    /\ dags = [g \in {"g1", "g2"} |-> [name |-> "Inquiry " \o g]]
    /\ roles = RoleRows
    /\ entities = EntityRows
    /\ nodes = NodeRows
    /\ edges = Empty
    /\ events = Empty
    /\ eventTypes = [t \in {"et1"} |-> [name |-> "Meeting"]]
    /\ eventSeq = 0
    /\ resp = lastResp
    /\ timeoutId = 0
    /\ isSaving = FALSE
    /\ timers = {}
    /\ inFlight = 0
    /\ saveLog = "constructed"
    /\ backup = FALSE
    /\ unsavedTrigger = "none"
    /\ relationshipTypes = [t \in {"rt1"} |-> [name |-> "Knows", category |-> "personal"]]
    /\ canvas = [nodes |-> LoadedNodes, edges |-> Empty]
    /\ allNodes = LoadedNodes
    /\ creating = NoTarget
    /\ nodeSeq = 0
    /\ hasUnsavedChanges = FALSE
    /\ effectSeen = [canvas |-> [nodes |-> LoadedNodes, edges |-> Empty], unsaved |-> FALSE]
    /\ requested = [nodes |-> LoadedNodes, edges |-> Empty]
    /\ handlers = Empty

Init == InitWith([op |-> "init", status |-> 200])

\* f without the keys in S
Without(f, S) == [k \in DOMAIN f \ S |-> f[k]]

\* f with key k bound to v
With(f, k, v) == [j \in DOMAIN f \cup {k} |-> IF j = k THEN v ELSE f[j]]

-----------------------------------------------------------------------------
(* The store inside a transaction *)

\* the rows a save reads and writes, and whether a statement has thrown
Db == [nodes |-> nodes, edges |-> edges, events |-> events, entities |-> entities,
       ok |-> TRUE]

Throw(db) == [db EXCEPT !.ok = FALSE]

\* the RelationshipType rows an edge may reference
RelationshipTypeIds == DOMAIN relationshipTypes

\* Event.sourceNodeId / targetNodeId are optional relations and participantNodes
\* an implicit many-to-many: deleting a node nulls the former and unlinks the latter
EventAfterNodeDelete(ev, gone) ==
    [ev EXCEPT !.sourceNodeId = IF @ \in gone THEN Null ELSE @,
               !.targetNodeId = IF @ \in gone THEN Null ELSE @,
               !.participants = @ \ gone]

\* a store that leaves the event's reference to a deleted edge in place
EventAfterEdgeDeleteKept(ev, gone) == ev

\* Event.createdEdge is an optional relation held by createdEdgeId: deleting the
\* edge nulls the event's reference
EventAfterEdgeDelete(ev, gone) ==
    [ev EXCEPT !.createdEdgeId = IF @ \in gone THEN Null ELSE @]

\* DELETE of DAGEdge rows, with the events that referenced them
DeleteEdgeRows(db, gone) ==
    [db EXCEPT
        !.edges = Without(@, gone),
        !.events = [ev \in DOMAIN @ |-> EventAfterEdgeDelete(@[ev], gone)]]

\* DELETE of DAGNode rows: DAGEdge rows cascade on sourceId and targetId
DeleteNodeRows(db, gone) ==
    LET cascaded == {e \in DOMAIN db.edges :
                        db.edges[e].sourceId \in gone \/ db.edges[e].targetId \in gone}
        d == DeleteEdgeRows(db, cascaded)
    IN  [d EXCEPT
            !.nodes = Without(@, gone),
            !.events = [ev \in DOMAIN @ |-> EventAfterNodeDelete(@[ev], gone)]]

-----------------------------------------------------------------------------
(* POST /api/dag/[id]: save the client's node and edge lists *)

\* the kind stored for a node: root when the client says so, else from the role name
DerivedKind(isRootNode, roleName) ==
    IF isRootNode THEN "root"
    ELSE LET lower == ToLowerCase(roleName)
         IN  IF Includes(lower, "evidence leader") \/ Includes(lower, "evidenceleader")
             THEN "evidenceLeader"
             ELSE "custom"

\* deleteMany: nodes of the graph missing from the request, never a root;
\* skipped when the request names no node
DeleteMissingNodes(db, g, sentNodeIds) ==
    IF sentNodeIds # {}
    THEN DeleteNodeRows(db, {n \in DOMAIN db.nodes :
            /\ db.nodes[n].dagId = g
            /\ n \notin sentNodeIds
            /\ db.nodes[n].type # "root"})
    ELSE db

\* an entity with the label the client's node carries written into it
EntityFromClient(entity, node) == [entity EXCEPT !.name = node.label]

\* what the node upsert writes to the node's entity: its update and create data
\* name no Entity field
EntityOnUpsert(entity, node) == entity

\* one iteration of the node loop: entity lookup, normalisation, upsert by id
UpsertNode(db, g, id, node) ==
    IF node.entityId \notin DOMAIN entities THEN Throw(db)
    ELSE LET isRootNode == node.type = "root"
             finalX == IF isRootNode THEN 0 ELSE node.position.x
             finalY == IF isRootNode THEN 0 ELSE node.position.y
             nodeType == DerivedKind(isRootNode, roles[entities[node.entityId].roleId].name)
             written == [db EXCEPT !.entities[node.entityId] = EntityOnUpsert(@, node)]
         IN  IF id \in DOMAIN db.nodes
             THEN [written EXCEPT !.nodes[id] =
                      [@ EXCEPT !.x = finalX, !.y = finalY, !.type = nodeType]]
             ELSE [written EXCEPT !.nodes = With(@, id,
                      [dagId |-> g, entityId |-> node.entityId,
                       x |-> finalX, y |-> finalY, type |-> nodeType])]

RECURSIVE UpsertNodes(_, _, _, _)
UpsertNodes(db, g, cnodes, todo) ==
    IF todo = {} \/ ~db.ok THEN db
    ELSE LET id == CHOOSE n \in todo : TRUE
         IN  UpsertNodes(UpsertNode(db, g, id, cnodes[id]), g, cnodes, todo \ {id})

\* deleteMany: edges of the graph missing from the request; skipped when the
\* request names no edge
DeleteMissingEdges(db, g, sentEdgeIds) ==
    IF sentEdgeIds # {}
    THEN DeleteEdgeRows(db, {e \in DOMAIN db.edges :
            db.edges[e].dagId = g /\ e \notin sentEdgeIds})
    ELSE db

\* one iteration of the edge loop: the relationship reference wins over the label
UpsertEdge(db, g, id, edge) ==
    LET relationshipTypeId == IF Truthy(edge.relationshipTypeId)
                              THEN edge.relationshipTypeId ELSE Null
        label == IF relationshipTypeId # Null THEN Null
                 ELSE IF Truthy(edge.label) THEN edge.label ELSE Null
    IN  IF relationshipTypeId # Null /\ relationshipTypeId \notin RelationshipTypeIds
        THEN Throw(db)
        ELSE IF id \in DOMAIN db.edges
        THEN [db EXCEPT !.edges[id] =
                 [@ EXCEPT !.relationshipTypeId = relationshipTypeId, !.label = label]]
        ELSE IF edge.source \notin DOMAIN db.nodes \/ edge.target \notin DOMAIN db.nodes
        THEN Throw(db)
        ELSE [db EXCEPT !.edges = With(@, id,
                 [dagId |-> g, sourceId |-> edge.source, targetId |-> edge.target,
                  label |-> label, relationshipTypeId |-> relationshipTypeId,
                  createdFromEventId |-> Null])]

RECURSIVE UpsertEdges(_, _, _, _)
UpsertEdges(db, g, cedges, todo) ==
    IF todo = {} \/ ~db.ok THEN db
    ELSE LET id == CHOOSE e \in todo : TRUE
         IN  UpsertEdges(UpsertEdge(db, g, id, cedges[id]), g, cedges, todo \ {id})

\* the body of the $transaction callback
SaveTransaction(db, g, cnodes, cedges) ==
    LET d1 == DeleteMissingNodes(db, g, DOMAIN cnodes)
        d2 == UpsertNodes(d1, g, cnodes, DOMAIN cnodes)
        d3 == IF d2.ok THEN DeleteMissingEdges(d2, g, DOMAIN cedges) ELSE d2
    IN  UpsertEdges(d3, g, cedges, DOMAIN cedges)

\* a transaction that keeps the writes made before the callback threw
TransactionNoRollback(before, after) == after

\* prisma.$transaction: the callback's writes are kept only when it returns
Transaction(before, after) == IF after.ok THEN after ELSE before

\* the pre-validation of the request before the transaction starts
InvalidNode(node) == Falsy(node.entityId) \/ ~node.numericPosition

InvalidEdge(edge) == Falsy(edge.source) \/ Falsy(edge.target)

SaveStatus(g, cnodes, cedges, after) ==
    IF g \notin DOMAIN dags THEN 404
    ELSE IF \E n \in DOMAIN cnodes : InvalidNode(cnodes[n]) THEN 400
    ELSE IF \E e \in DOMAIN cedges : InvalidEdge(cedges[e]) THEN 400
    ELSE IF ~after.ok THEN 500
    ELSE 200

\* interrupted: the transaction was cut short by the store (P2028, timeout)
SaveGraphOutcome(g, cnodes, cedges, interrupted) ==
    LET ran == SaveTransaction(Db, g, cnodes, cedges)
        after == IF interrupted THEN Throw(ran) ELSE ran
        status == SaveStatus(g, cnodes, cedges, after)
    IN  [status |-> status,
         db |-> IF status \in {400, 404} THEN Db ELSE Transaction(Db, after)]

SaveGraph(g, cnodes, cedges, interrupted) ==
    LET out == SaveGraphOutcome(g, cnodes, cedges, interrupted)
    IN  /\ nodes' = out.db.nodes
        /\ edges' = out.db.edges
        /\ events' = out.db.events
        /\ entities' = out.db.entities
        /\ resp' = [op |-> "saveGraph", status |-> out.status, dag |-> g]
        /\ UNCHANGED <<dags, roles, eventTypes, eventSeq>>
        /\ UNCHANGED <<handlers, autoSaveVars, relationshipTypes, viewVars>>

-----------------------------------------------------------------------------
(* GET /api/dag/[id]: load a graph, creating the graph and its root if missing *)

\* ids the store generates for the rows the server creates
ServerNodeIds == <<"s1">>

ServerEntityIds == <<"x1">>

HasFresh(pool, used) == \E i \in 1..Len(pool) : pool[i] \notin used

FreshId(pool, used) ==
    pool[CHOOSE i \in 1..Len(pool) :
            pool[i] \notin used /\ \A j \in 1..(i - 1) : pool[j] \in used]

\* role.findFirst({name: "Root"}), created when absent
WithRootRole(rs) ==
    IF \E r \in DOMAIN rs : rs[r].name = "Root" THEN rs
    ELSE With(rs, "rRootAuto", [name |-> "Root", category |-> "official", isSystem |-> TRUE])

RootRoleId(rs) == CHOOSE r \in DOMAIN rs : rs[r].name = "Root"

\* a root entity and a root node at (0,0) for graph g
WithRootNode(st, g, name) ==
    LET rs == WithRootRole(st.roles)
        e == FreshId(ServerEntityIds, DOMAIN st.entities)
        n == FreshId(ServerNodeIds, DOMAIN st.nodes)
    IN  [st EXCEPT !.roles = rs,
                   !.entities = With(@, e, [name |-> name, roleId |-> RootRoleId(rs),
                                            description |-> Null]),
                   !.nodes = With(@, n, [dagId |-> g, entityId |-> e,
                                         x |-> 0, y |-> 0, type |-> "root"])]

\* the MVP branch: an unknown graph id is created with its root
CreateDagIfMissing(st, g) ==
    IF g \in DOMAIN st.dags THEN st
    ELSE LET name == "Investigation " \o g
         IN  WithRootNode([st EXCEPT !.dags = With(@, g, [name |-> name])], g, name)

\* the self-healing branch: a graph with no root node gets one
CreateRootIfMissing(st, g) ==
    IF \E n \in DOMAIN st.nodes : st.nodes[n].dagId = g /\ st.nodes[n].type = "root"
    THEN st
    ELSE WithRootNode(st, g, st.dags[g].name)

\* the kind returned for a stored node: root is kept, the rest follows the role
HydratedKind(storedType, roleName) ==
    IF storedType = "root" THEN "root"
    ELSE LET lower == ToLowerCase(roleName)
         IN  IF Includes(lower, "evidence leader") \/ Includes(lower, "evidenceleader")
             THEN "evidenceLeader"
             ELSE "custom"

\* the frontend node: position and kind of the node, content of its entity
HydrateNode(st, n) ==
    LET node == st.nodes[n]
        entity == st.entities[node.entityId]
    IN  [type |-> HydratedKind(node.type, st.roles[entity.roleId].name),
         position |-> [x |-> node.x, y |-> node.y],
         label |-> entity.name,
         roleId |-> entity.roleId,
         description |-> IF Truthy(entity.description) THEN entity.description ELSE Undef,
         entityId |-> node.entityId]

HydrateEdge(edge) ==
    [source |-> edge.sourceId, target |-> edge.targetId,
     label |-> IF edge.relationshipTypeId # Null THEN Undef
               ELSE IF Truthy(edge.label) THEN edge.label ELSE Undef,
     relationshipTypeId |-> IF edge.relationshipTypeId # Null
                            THEN edge.relationshipTypeId ELSE Undef]

Store == [dags |-> dags, roles |-> roles, entities |-> entities, nodes |-> nodes]

NodesOf(st, g) == {n \in DOMAIN st.nodes : st.nodes[n].dagId = g}

EdgesOf(g) == {e \in DOMAIN edges : edges[e].dagId = g}

LoadGraph(g) ==
    /\ HasFresh(ServerNodeIds, DOMAIN nodes)
    /\ HasFresh(ServerEntityIds, DOMAIN entities)
    /\ LET st == CreateRootIfMissing(CreateDagIfMissing(Store, g), g)
       IN  /\ dags' = st.dags
           /\ roles' = st.roles
           /\ entities' = st.entities
           /\ nodes' = st.nodes
           /\ resp' = [op |-> "load", status |-> 200, dag |-> g,
                       nodes |-> [n \in NodesOf(st, g) |-> HydrateNode(st, n)],
                       edges |-> [e \in EdgesOf(g) |-> HydrateEdge(edges[e])]]
    /\ UNCHANGED <<edges, events, eventTypes, eventSeq>>
    /\ UNCHANGED <<handlers, autoSaveVars, relationshipTypes, viewVars>>

-----------------------------------------------------------------------------
(* PUT /api/entities/[id]: change an entity's name, role or description *)

UpdateEntityStatus(id, roleId) ==
    IF id \notin DOMAIN entities THEN 404
    ELSE IF Truthy(roleId) /\ roleId \notin DOMAIN roles THEN 400
    ELSE 200

\* the fields of the request body; Undef for a key that is absent
EntityData(name, roleId, description) ==
    [name |-> name, roleId |-> roleId, description |-> description]

\* a name, when sent, has at least two characters (UpdateEntitySchema)
UpdateEntityDataStatus(id, data) ==
    IF data.name # Undef /\ Len(data.name) < 2 THEN 400
    ELSE UpdateEntityStatus(id, data.roleId)

\* the row after prisma.entity.update: a truthy name, a truthy roleId, and any
\* description that is not undefined (null included) are written
UpdatedEntity(row, data) ==
    [name |-> IF Truthy(data.name) THEN data.name ELSE row.name,
     roleId |-> IF Truthy(data.roleId) THEN data.roleId ELSE row.roleId,
     description |-> IF data.description # Undef THEN data.description ELSE row.description]

UpdateEntityData(id, data) ==
    LET status == UpdateEntityDataStatus(id, data)
    IN  /\ entities' = IF status = 200
                       THEN [entities EXCEPT ![id] = UpdatedEntity(@, data)]
                       ELSE entities
        /\ resp' = [op |-> "updateEntity", status |-> status]
        /\ UNCHANGED <<dags, roles, nodes, edges, events, eventTypes, eventSeq>>
        /\ UNCHANGED <<handlers, autoSaveVars, relationshipTypes, viewVars>>

\* a request that carries only a role
UpdateEntity(id, roleId) == UpdateEntityData(id, EntityData(Undef, roleId, Undef))

-----------------------------------------------------------------------------
(* The requests of the editor *)

KindHints == {"root", "custom", "evidenceLeader"}

Moved == [x |-> 300, y |-> 150]

\* a node of a save request; label is the display name the client's node data
\* carries, here one that no entity has
ClientNode(e, p, t) ==
    [entityId |-> e, numericPosition |-> TRUE, position |-> p, type |-> t,
     label |-> "Alias"]

\* what a request may carry for node n. The root n0: as loaded, dragged away, or
\* with its kind changed. n1: every kind hint, two positions, and one record each
\* with no numeric position, with an unknown entity and with no entityId.
\* n2: as placed.
NodeOptions(n) ==
    CASE n = "n0" -> {ClientNode("e0", Origin, "root"), ClientNode("e0", Moved, "root"),
                      ClientNode("e0", Moved, "custom")}
      [] n = "n1" -> {ClientNode("e1", Moved, t) : t \in KindHints}
                     \cup {ClientNode("e1", Origin, "custom"),
                           [ClientNode("e1", Origin, "custom") EXCEPT !.numericPosition = FALSE],
                           ClientNode("eX", Origin, "custom"),
                           ClientNode(Undef, Origin, "custom")}
      [] n = "n2" -> {ClientNode("e2", Moved, "custom")}

AllNodeOptions == UNION {NodeOptions(n) : n \in ClientNodeIds}

NodePayloads ==
    UNION {{f \in [S -> AllNodeOptions] : \A n \in S : f[n] \in NodeOptions(n)} :
           S \in SUBSET ClientNodeIds}

ClientEdge(a, b, l, r) ==
    [source |-> a, target |-> b, label |-> l, relationshipTypeId |-> r]

\* what a request may carry for edge e. ea: n1 -> n2 with a label or with a
\* relationship reference, and one record each with no target, with an unknown
\* target and with an unknown relationship. eb: n1 -> n2 or n2 -> n1 with a label.
EdgeOptions(e) ==
    CASE e = "ea" -> {ClientEdge("n1", "n2", "knows", Undef),
                      ClientEdge("n1", "n2", "knows", "rt1"),
                      ClientEdge("n1", Undef, "knows", Undef),
                      ClientEdge("n1", "nX", "knows", Undef),
                      ClientEdge("n1", "n2", "knows", "rtX")}
      [] e = "eb" -> {ClientEdge("n1", "n2", "paid", Undef),
                      ClientEdge("n2", "n1", "paid", Undef)}

AllEdgeOptions == UNION {EdgeOptions(e) : e \in ClientEdgeIds}

EdgePayloads ==
    UNION {{f \in [S -> AllEdgeOptions] : \A e \in S : f[e] \in EdgeOptions(e)} :
           S \in SUBSET ClientEdgeIds}

\* the lists the editor sends back when it changed nothing since its load
EchoNodes(g) ==
    [n \in NodesOf(Store, g) |->
        LET h == HydrateNode(Store, n)
        IN  [entityId |-> h.entityId, numericPosition |-> TRUE,
             position |-> h.position, type |-> h.type, label |-> h.label]]

EchoEdges(g) ==
    [e \in EdgesOf(g) |->
        LET h == HydrateEdge(edges[e])
        IN  [source |-> h.source, target |-> h.target, label |-> h.label,
             relationshipTypeId |-> h.relationshipTypeId]]

\* a save after node edits: any node list, with the edges untouched or none
SaveNodes ==
    \E cnodes \in NodePayloads, cedges \in {Empty, EchoEdges("g1")} :
        SaveGraph("g1", cnodes, cedges, FALSE)

\* a save after edge edits: the nodes untouched, any edge list
SaveEdges ==
    LET echo == EchoNodes("g1")
    IN  \E cedges \in EdgePayloads : SaveGraph("g1", echo, cedges, FALSE)

\* a save whose transaction the store interrupts
SaveInterrupted ==
    LET echo == EchoEdges("g1")
    IN  \E cnodes \in NodePayloads : SaveGraph("g1", cnodes, echo, TRUE)

\* a save addressed to a graph that does not exist
SaveUnknown == SaveGraph("gX", Empty, Empty, FALSE)

Load == LoadGraph("g1")

EditEntity ==
    \E id \in {"e1", "eX"}, roleId \in {"rWit", "rLead", "rX"} :
        UpdateEntity(id, roleId)

NextSave ==
    SaveNodes \/ SaveEdges \/ SaveInterrupted \/ SaveUnknown \/ Load \/ EditEntity

SpecSave == Init /\ [][NextSave]_vars

-----------------------------------------------------------------------------
(* POST /api/events and PUT /api/events/[id] *)

\* new Date(text): the calendar day and the time of day, NaN when text is no date
NullDate == [day |-> Null, time |-> Null]

InvalidDate == [day |-> "NaN", time |-> "NaN"]

ParseDate(text) ==
    CASE text = "2024-03-01" -> [day |-> "2024-03-01", time |-> "00:00"]
      [] text = "2024-03-01T09:00" -> [day |-> "2024-03-01", time |-> "09:00"]
      [] text = "2024-03-02" -> [day |-> "2024-03-02", time |-> "00:00"]
      [] OTHER -> InvalidDate

\* an absent participantNodeIds key, and a list of ids
NoList == [given |-> FALSE, ids |-> <<>>]

List(ids) == [given |-> TRUE, ids |-> ids]

\* participantNodeIds.filter(id => id && id.trim().length > 0)
ValidParticipantIds(ids) ==
    {ids[i] : i \in {j \in 1..Len(ids) : Truthy(ids[j]) /\ Len(Trim(ids[j])) > 0}}

\* !sourceNodeId && !targetNodeId && (!participantNodeIds || length === 0)
NoNodeLinked(req) ==
    /\ Falsy(req.sourceNodeId)
    /\ Falsy(req.targetNodeId)
    /\ (~req.participantNodeIds.given \/ Len(req.participantNodeIds.ids) = 0)

\* dAGNode.findFirst({id, dagId})
NodeInDag(n, g) == n \in DOMAIN nodes /\ nodes[n].dagId = g

\* the custom-type step: look the name up as given, create it trimmed.
\* The result is the event type rows, the id to use, and whether create threw
\* (EventType.name is unique)
ResolveEventType(types, eventTypeId, customTypeName) ==
    IF Truthy(customTypeName) /\ Falsy(eventTypeId)
    THEN IF \E t \in DOMAIN types : types[t].name = customTypeName
         THEN [types |-> types, ok |-> TRUE,
               id |-> CHOOSE t \in DOMAIN types : types[t].name = customTypeName]
         ELSE IF \E t \in DOMAIN types : types[t].name = Trim(customTypeName)
         THEN [types |-> types, ok |-> FALSE, id |-> Null]
         ELSE LET id == "et:" \o Trim(customTypeName)
              IN  [types |-> With(types, id, [name |-> Trim(customTypeName)]),
                   ok |-> TRUE, id |-> id]
    ELSE [types |-> types, ok |-> TRUE, id |-> eventTypeId]

Max(S) == CHOOSE m \in S : \A k \in S : k <= m

\* max sortOrder among the graph's events of the same day (or series day), plus one
NewSortOrder(g, eventDate, seriesDay) ==
    LET same == IF eventDate # NullDate
                THEN {e \in DOMAIN events : events[e].dagId = g
                                            /\ events[e].date.day = eventDate.day}
                ELSE IF seriesDay \notin {Undef, Null}
                THEN {e \in DOMAIN events : events[e].dagId = g
                                            /\ events[e].seriesDay = seriesDay}
                ELSE {}
    IN  IF eventDate = NullDate /\ seriesDay \in {Undef, Null} THEN 0
        ELSE IF same = {} THEN 0
        ELSE Max({events[e].sortOrder : e \in same}) + 1

\* a lookup that compares both ends of an edge with the source
EdgeExistsBySource(es, g, a, b) ==
    \E e \in DOMAIN es : es[e].dagId = g /\ es[e].sourceId = a /\ es[e].targetId = a

\* dAGEdge.findFirst({dagId, sourceId, targetId})
EdgeExists(es, g, a, b) ==
    \E e \in DOMAIN es : es[e].dagId = g /\ es[e].sourceId = a /\ es[e].targetId = b

\* a guard that forgets the target
EdgeRequestedNoTarget(req) ==
    Truthy(req.createEdge) /\ Truthy(req.sourceNodeId)

\* the guard of the edge derivation: createEdge && sourceNodeId && targetNodeId
EdgeRequested(req) ==
    Truthy(req.createEdge) /\ Truthy(req.sourceNodeId) /\ Truthy(req.targetNodeId)

\* a derived edge labelled with the title as typed
DerivedEdgeUntrimmed(g, req, eventId) ==
    [dagId |-> g, sourceId |-> req.sourceNodeId, targetId |-> req.targetNodeId,
     label |-> req.title, relationshipTypeId |-> Null,
     createdFromEventId |-> eventId]

\* the edge an event derives: labelled with the trimmed title, tagged with the event
DerivedEdge(g, req, eventId) ==
    [dagId |-> g, sourceId |-> req.sourceNodeId, targetId |-> req.targetNodeId,
     label |-> Trim(req.title), relationshipTypeId |-> Null,
     createdFromEventId |-> eventId]

EventId(i) == "v" \o ToString(i)

\* the id the store gives the edge derived from an event
DerivedEdgeId(eventId) == "c" \o eventId

\* the first failed check of POST /api/events, 0 when all pass
CreateEventRejection(req) ==
    IF Falsy(req.title) \/ Trim(req.title) = "" THEN 400
    ELSE IF Falsy(req.date) /\ Falsy(req.seriesDay) /\ Falsy(req.sourceDagId) THEN 400
    ELSE IF Falsy(req.eventTypeId) /\ Falsy(req.customTypeName) THEN 400
    ELSE IF Falsy(req.dagId) THEN 400
    ELSE IF NoNodeLinked(req) THEN 400
    ELSE IF Truthy(req.sourceNodeId) /\ ~NodeInDag(req.sourceNodeId, req.dagId) THEN 400
    ELSE IF Truthy(req.targetNodeId) /\ ~NodeInDag(req.targetNodeId, req.dagId) THEN 400
    ELSE 0

\* POST /api/events. edgeFault: the store fails the insert of the derived edge.
\* The result: the status, the rows after the call, the event and the edge returned
CreateEventResult(req, edgeFault) ==
    LET rejected == CreateEventRejection(req)
        type == ResolveEventType(eventTypes, req.eventTypeId, req.customTypeName)
        eventDate == IF Truthy(req.date) THEN ParseDate(req.date) ELSE NullDate
        given == IF req.participantNodeIds.given
                 THEN ValidParticipantIds(req.participantNodeIds.ids) ELSE {}
        id == EventId(eventSeq + 1)
        row == [dagId |-> req.dagId,
                title |-> Trim(req.title),
                date |-> eventDate,
                seriesDay |-> IF req.seriesDay \notin {Undef, Null} THEN req.seriesDay ELSE Null,
                sortOrder |-> NewSortOrder(req.dagId, eventDate, req.seriesDay),
                eventTypeId |-> type.id,
                sourceDagId |-> IF Truthy(req.sourceDagId) THEN req.sourceDagId ELSE Null,
                sourceNodeId |-> IF Truthy(req.sourceNodeId) THEN req.sourceNodeId ELSE Null,
                targetNodeId |-> IF Truthy(req.targetNodeId) THEN req.targetNodeId ELSE Null,
                participants |-> given,
                createdEdgeId |-> Null]
        none == [status |-> 0, events |-> events, edges |-> edges, types |-> eventTypes,
                 seq |-> eventSeq, event |-> Null, createdEdge |-> Null]
        created == [none EXCEPT !.types = type.types, !.seq = eventSeq + 1,
                                !.events = With(events, id, row), !.event = id]
        edgeId == DerivedEdgeId(id)
    IN  IF rejected # 0 THEN [none EXCEPT !.status = rejected]
        ELSE IF ~type.ok THEN [none EXCEPT !.status = 500]
        ELSE IF eventDate = InvalidDate THEN [none EXCEPT !.status = 400, !.types = type.types]
        ELSE IF \/ given \ DOMAIN nodes # {}
                \/ type.id \notin DOMAIN type.types
                \/ req.dagId \notin DOMAIN dags
                \/ (Truthy(req.sourceDagId) /\ req.sourceDagId \notin DOMAIN dags)
        THEN [none EXCEPT !.status = 500, !.types = type.types]
        ELSE IF ~EdgeRequested(req)
                \/ EdgeExists(edges, req.dagId, req.sourceNodeId, req.targetNodeId)
        THEN [created EXCEPT !.status = 200]
        ELSE IF edgeFault THEN [created EXCEPT !.status = 500, !.event = Null]
        ELSE [created EXCEPT
                !.status = 200,
                !.edges = With(edges, edgeId, DerivedEdge(req.dagId, req, id)),
                !.events = With(events, id, [row EXCEPT !.createdEdgeId = edgeId]),
                !.createdEdge = edgeId]

CreateEvent(req, edgeFault) ==
    LET r == CreateEventResult(req, edgeFault)
    IN  /\ events' = r.events
        /\ edges' = r.edges
        /\ eventTypes' = r.types
        /\ eventSeq' = r.seq
        /\ resp' = [op |-> "createEvent", status |-> r.status,
                    createdEdge |-> r.createdEdge]
        /\ UNCHANGED <<dags, roles, entities, nodes>>
        /\ UNCHANGED <<handlers, autoSaveVars, relationshipTypes, viewVars>>

\* the first failed check of PUT /api/events/[id], 0 when all pass
UpdateEventRejection(id, req) ==
    IF Falsy(req.title) \/ Trim(req.title) = "" THEN 400
    ELSE IF Falsy(req.date) THEN 400
    ELSE IF Falsy(req.eventTypeId) /\ Falsy(req.customTypeName) THEN 400
    ELSE IF id \notin DOMAIN events THEN 404
    ELSE IF NoNodeLinked(req) THEN 400
    ELSE IF Truthy(req.sourceNodeId) /\ ~NodeInDag(req.sourceNodeId, events[id].dagId) THEN 400
    ELSE IF Truthy(req.targetNodeId) /\ ~NodeInDag(req.targetNodeId, events[id].dagId) THEN 400
    ELSE 0

\* an update that connects the ids sent and keeps the participants it had
UpdatedParticipantsConnected(old, list) ==
    IF list.given THEN old \cup ValidParticipantIds(list.ids) ELSE old

\* participantNodes: {set: ...} when the key is present, untouched otherwise
UpdatedParticipants(old, list) ==
    IF list.given
    THEN IF Len(list.ids) > 0 THEN ValidParticipantIds(list.ids) ELSE {}
    ELSE old

\* PUT /api/events/[id]. edgeFault: the store fails the insert of the derived edge
UpdateEventResult(id, req, edgeFault) ==
    LET rejected == UpdateEventRejection(id, req)
        existingEvent == events[id]
        dagId == existingEvent.dagId
        type == ResolveEventType(eventTypes, req.eventTypeId, req.customTypeName)
        eventDate == ParseDate(req.date)
        participants == UpdatedParticipants(existingEvent.participants, req.participantNodeIds)
        row == [existingEvent EXCEPT
                  !.title = Trim(req.title),
                  !.date = eventDate,
                  !.eventTypeId = type.id,
                  !.sourceNodeId = IF Truthy(req.sourceNodeId) THEN req.sourceNodeId ELSE Null,
                  !.targetNodeId = IF Truthy(req.targetNodeId) THEN req.targetNodeId ELSE Null,
                  !.participants = participants]
        none == [status |-> 0, events |-> events, edges |-> edges, types |-> eventTypes,
                 event |-> Null]
        updated == [none EXCEPT !.types = type.types, !.events = With(events, id, row)]
        edgeId == DerivedEdgeId(id)
    IN  IF rejected # 0 THEN [none EXCEPT !.status = rejected]
        ELSE IF ~type.ok THEN [none EXCEPT !.status = 500]
        ELSE IF eventDate = InvalidDate THEN [none EXCEPT !.status = 400, !.types = type.types]
        ELSE IF participants \ DOMAIN nodes # {} \/ type.id \notin DOMAIN type.types
        THEN [none EXCEPT !.status = 500, !.types = type.types]
        ELSE IF ~EdgeRequested(req) THEN [updated EXCEPT !.status = 200, !.event = id]
        ELSE IF existingEvent.createdEdgeId # Null
        THEN IF existingEvent.createdEdgeId \in DOMAIN edges
             THEN [updated EXCEPT
                     !.status = 200, !.event = id,
                     !.edges[existingEvent.createdEdgeId].label = Trim(req.title)]
             ELSE [updated EXCEPT !.status = 500]
        ELSE IF EdgeExists(edges, dagId, req.sourceNodeId, req.targetNodeId)
        THEN [updated EXCEPT !.status = 200, !.event = id]
        ELSE IF edgeFault THEN [updated EXCEPT !.status = 500]
        ELSE [updated EXCEPT
                !.status = 200, !.event = id,
                !.edges = With(edges, edgeId, DerivedEdge(dagId, req, id)),
                !.events = With(events, id, [row EXCEPT !.createdEdgeId = edgeId])]

UpdateEvent(id, req, edgeFault) ==
    LET r == UpdateEventResult(id, req, edgeFault)
    IN  /\ events' = r.events
        /\ edges' = r.edges
        /\ eventTypes' = r.types
        /\ resp' = [op |-> "updateEvent", status |-> r.status, createdEdge |-> Null]
        /\ UNCHANGED <<dags, roles, entities, nodes, eventSeq>>
        /\ UNCHANGED <<handlers, autoSaveVars, relationshipTypes, viewVars>>

-----------------------------------------------------------------------------
(* The requests of the event dialogs *)

\* the most events a run creates
MaxEvents == 2

EventRequest(title, date, src, tgt, list, createEdge) ==
    [title |-> title, date |-> date, seriesDay |-> Undef, sourceDagId |-> Undef,
     eventTypeId |-> "et1", customTypeName |-> Undef,
     sourceNodeId |-> src, targetNodeId |-> tgt, participantNodeIds |-> list,
     createEdge |-> createEdge, dagId |-> "g1"]

Meeting == EventRequest(" Met ", "2024-03-01", "n1", "n2", NoList, JsTrue)

\* requests with a source and a target, or one of them missing, and the edge flag
\* set, explicitly false or absent
EndpointRequests ==
    {Meeting,
     EventRequest("Paid", "2024-03-01", "n2", "n1", NoList, JsTrue),
     EventRequest("Paid", "2024-03-01", "n1", "n2", NoList, Undef),
     EventRequest("Paid", "2024-03-01", "n2", "n1", NoList, JsFalse),
     EventRequest("Paid", "2024-03-01", "n1", Undef, NoList, JsTrue),
     EventRequest("Paid", "2024-03-01", Undef, "n2", NoList, JsTrue)}

\* events linked through participants only: no id, a blank id, a node, an unknown id
ParticipantRequests ==
    {EventRequest("Paid", "2024-03-01", Undef, Undef, List(ids), JsTrue) :
        ids \in {<<>>, <<" ">>, <<"n1", "">>, <<"nX">>}}

\* requests that name a custom event type
CustomTypeRequests ==
    {[Meeting EXCEPT !.eventTypeId = Undef, !.customTypeName = "Raid", !.createEdge = Undef],
     [Meeting EXCEPT !.eventTypeId = Undef, !.customTypeName = " Raid"],
     [Meeting EXCEPT !.eventTypeId = Undef, !.customTypeName = "Raid", !.date = "someday"]}

\* requests the handlers reject
RejectedRequests ==
    {[Meeting EXCEPT !.title = ""],
     [Meeting EXCEPT !.title = "  "],
     [Meeting EXCEPT !.date = Undef],
     [Meeting EXCEPT !.date = "someday"],
     [Meeting EXCEPT !.eventTypeId = Undef],
     [Meeting EXCEPT !.eventTypeId = "etX"],
     [Meeting EXCEPT !.dagId = Undef],
     [Meeting EXCEPT !.sourceNodeId = "nX"],
     [Meeting EXCEPT !.targetNodeId = "m0"]}

EventRequests ==
    EndpointRequests \cup ParticipantRequests \cup CustomTypeRequests \cup RejectedRequests

SubmitEvent ==
    /\ eventSeq < MaxEvents
    /\ \E req \in EventRequests : CreateEvent(req, FALSE)

\* the requests of the edit dialog: the edge flag set with both ends, absent with
\* both ends, set with no target, participants only, a custom type, and rejected
EditRequests ==
    {Meeting,
     EventRequest("Paid", "2024-03-01", "n1", "n2", NoList, Undef),
     EventRequest("Paid", "2024-03-01", "n1", Undef, NoList, JsTrue),
     EventRequest("Paid", "2024-03-01", Undef, Undef, List(<<" ">>), JsTrue),
     [Meeting EXCEPT !.eventTypeId = Undef, !.customTypeName = "Raid", !.date = "someday"],
     [Meeting EXCEPT !.title = "  "]}

EditEvent ==
    \E id \in DOMAIN events \cup {"vX"}, req \in EditRequests : UpdateEvent(id, req, FALSE)

\* an event submitted or edited while the store fails the derived edge's insert
EventEdgeFault ==
    \/ eventSeq < MaxEvents /\ CreateEvent(Meeting, TRUE)
    \/ \E id \in DOMAIN events : UpdateEvent(id, Meeting, TRUE)

NextEvents == SubmitEvent \/ EditEvent \/ EventEdgeFault

SpecEvents == Init /\ [][NextEvents]_vars

-----------------------------------------------------------------------------
(* The canvas: connecting two nodes, followed by the save of the canvas *)

\* the id the canvas gives the edge it draws from a to b
CanvasEdgeId(a, b) == "e-" \o a \o "-" \o b

\* the nodes whose handles the user drags between
Connectable == {"n1", "n2"}

\* the user connects two nodes of the loaded graph and names the relationship;
\* the canvas appends the edge and saves every node and edge it shows
ConnectNodes ==
    LET shown == NodesOf(Store, "g1") \cap Connectable
    IN  \E source \in shown : \E target \in shown \ {source} :
        \E relationship \in {"knows"} :
            /\ ~(nodes[source].type = "root" /\ nodes[target].type = "root")
            /\ SaveGraph("g1", EchoNodes("g1"),
                   With(EchoEdges("g1"), CanvasEdgeId(source, target),
                        ClientEdge(source, target, relationship, Undef)),
                   FALSE)

NextCanvas == SubmitEvent \/ ConnectNodes

SpecCanvas == Init /\ [][NextCanvas]_vars

-----------------------------------------------------------------------------
(* POST /api/events/reorder and the order of GET /api/events *)

\* the most events a run of the ordering specification creates
MaxDated == 3

\* an index that counts from one
SortIndexFromOne(i) == i

\* the array index of the i-th element
SortIndex(i) == i - 1

\* the elements of a list
Range(ids) == {ids[i] : i \in 1..Len(ids)}

\* the events of graph g whose date falls on the day of eventDate
EventsOnDay(g, eventDate) ==
    {e \in DOMAIN events : /\ events[e].dagId = g
                           /\ events[e].date # NullDate
                           /\ events[e].date.day = eventDate.day}

\* POST /api/events/reorder: the status and the Event rows after the call
ReorderResult(g, date, eventIds) ==
    LET eventDate == ParseDate(date)
        ids == eventIds.ids
        found == Range(ids) \cap EventsOnDay(g, eventDate)
    IN  IF Falsy(g) \/ Falsy(date) \/ ~eventIds.given
        THEN [status |-> 400, events |-> events]
        ELSE IF eventDate = InvalidDate
        THEN [status |-> 400, events |-> events]
        ELSE IF Cardinality(found) # Len(ids)
        THEN [status |-> 400, events |-> events]
        ELSE [status |-> 200,
              events |-> [e \in DOMAIN events |->
                  IF e \in Range(ids)
                  THEN [events[e] EXCEPT !.sortOrder =
                           SortIndex(CHOOSE i \in 1..Len(ids) : ids[i] = e)]
                  ELSE events[e]]]

ReorderEvents(g, date, eventIds) ==
    LET r == ReorderResult(g, date, eventIds)
    IN  /\ events' = r.events
        /\ resp' = [op |-> "reorderEvents", status |-> r.status, createdEdge |-> Null]
        /\ UNCHANGED <<dags, roles, entities, nodes, edges, eventTypes, eventSeq>>
        /\ UNCHANGED <<handlers, autoSaveVars, relationshipTypes, viewVars>>

\* the instant of a parsed date, in hours since 2024-03-01T00:00
Instant(d) ==
    CASE d.day = "2024-03-01" /\ d.time = "00:00" -> 0
      [] d.day = "2024-03-01" /\ d.time = "09:00" -> 9
      [] d.day = "2024-03-02" /\ d.time = "00:00" -> 24

\* the number of a series day
SeriesDayNumber(day) == CASE day = "1" -> 1 [] day = "2" -> 2

\* createdAt: events are created one after the other
CreatedAt(id) == CHOOSE i \in 1..(MaxEvents + MaxDated + 1) : EventId(i) = id

\* orderBy date desc: -1 when a sorts first, 1 when b does, 0 on a tie;
\* the rows without a date come last
ByDateDesc(a, b) ==
    IF a.date = NullDate /\ b.date = NullDate THEN 0
    ELSE IF a.date = NullDate THEN 1
    ELSE IF b.date = NullDate THEN -1
    ELSE IF Instant(a.date) > Instant(b.date) THEN -1
    ELSE IF Instant(a.date) < Instant(b.date) THEN 1
    ELSE 0

\* orderBy seriesDay asc; the rows without a series day come first
BySeriesDayAsc(a, b) ==
    IF a.seriesDay = Null /\ b.seriesDay = Null THEN 0
    ELSE IF a.seriesDay = Null THEN -1
    ELSE IF b.seriesDay = Null THEN 1
    ELSE IF SeriesDayNumber(a.seriesDay) < SeriesDayNumber(b.seriesDay) THEN -1
    ELSE IF SeriesDayNumber(a.seriesDay) > SeriesDayNumber(b.seriesDay) THEN 1
    ELSE 0

\* GET /api/events lists event a of es before event b:
\* orderBy date desc, seriesDay asc, sortOrder asc, createdAt asc
ListedBefore(es, a, b) ==
    LET byDate == ByDateDesc(es[a], es[b])
        bySeriesDay == BySeriesDayAsc(es[a], es[b])
    IN  IF byDate # 0 THEN byDate = -1
        ELSE IF bySeriesDay # 0 THEN bySeriesDay = -1
        ELSE IF es[a].sortOrder # es[b].sortOrder THEN es[a].sortOrder < es[b].sortOrder
        ELSE CreatedAt(a) < CreatedAt(b)

\* requests that differ in their day, their time of day or their series day
DatedRequests ==
    {EventRequest("Paid", "2024-03-01", "n1", Undef, NoList, Undef),
     EventRequest("Paid", "2024-03-01T09:00", "n1", Undef, NoList, Undef),
     EventRequest("Paid", "2024-03-02", "n1", Undef, NoList, Undef),
     [EventRequest("Paid", Undef, "n1", Undef, NoList, Undef) EXCEPT !.seriesDay = "1"]}

SubmitDated ==
    /\ eventSeq < MaxDated
    /\ \E req \in DatedRequests : CreateEvent(req, FALSE)

\* the lists that name each event of S once
RECURSIVE Orderings(_)
Orderings(S) ==
    IF S = {} THEN {<<>>}
    ELSE UNION {{<<e>> \o ids : ids \in Orderings(S \ {e})} : e \in S}

\* the id lists a reorder request may carry: some events in some order, an event
\* twice, an unknown id
IdLists ==
    UNION {Orderings(S) : S \in SUBSET DOMAIN events}
        \cup {<<e, e>> : e \in DOMAIN events}
        \cup {<<"vX">>}

\* reorders of 2024-03-01 with any of the lists, and of 2024-03-02 with one event
ReorderRequests ==
    {[date |-> "2024-03-01", ids |-> ids] : ids \in IdLists}
        \cup {[date |-> "2024-03-02", ids |-> <<e>>] : e \in DOMAIN events}

ReorderDay ==
    \E req \in ReorderRequests : ReorderEvents("g1", req.date, List(req.ids))

\* reorder requests with no graph, no list, an unparseable date, another graph
ReorderMalformed ==
    \E req \in {[dagId |-> Undef, date |-> "2024-03-01", eventIds |-> List(<<>>)],
                 [dagId |-> "g1", date |-> "2024-03-01", eventIds |-> NoList],
                 [dagId |-> "g1", date |-> "someday", eventIds |-> List(<<>>)],
                 [dagId |-> "g2", date |-> "2024-03-01", eventIds |-> List(<<"v1">>)]} :
        ReorderEvents(req.dagId, req.date, req.eventIds)

NextOrder == SubmitDated \/ ReorderDay \/ ReorderMalformed

SpecOrder == Init /\ [][NextOrder]_vars

-----------------------------------------------------------------------------
(* AutoSave: the debounced save of the editor (lib/autoSave.ts) *)

\* the most timers pending at once
MaxTimers == 4

\* the most onSave invocations the run lets start without settling
MaxInFlight == 2

TimerIds == 1..MaxTimers

\* clearTimeout(id): a no-op for null and for a timer that has fired
ClearTimeout(ts, id) == ts \ {id}

\* a setTimeout whose callback is never scheduled
SetTimeoutLost(ts, id) == ts

\* setTimeout(() => this.save(), delay), returning handle id
SetTimeout(ts, id) == ts \cup {id}

\* the handle setTimeout returns: one no pending timer has
NewHandle(ts) == CHOOSE id \in TimerIds : id \notin ts

\* a test that never sees a save in progress
NeverSaving(saving) == FALSE

\* if (this.isSaving)
AlreadySaving(saving) == saving

\* save(), run with pending timers ts: reschedule when a save is in progress,
\* else set isSaving and invoke onSave
Save(ts) ==
    IF AlreadySaving(isSaving)
    THEN /\ ts # TimerIds
         /\ timers' = SetTimeout(ts, NewHandle(ts))
         /\ timeoutId' = NewHandle(ts)
         /\ saveLog' = "rescheduled"
         /\ UNCHANGED <<isSaving, inFlight, backup, unsavedTrigger>>
    ELSE /\ inFlight < MaxInFlight
         /\ isSaving' = TRUE
         /\ inFlight' = inFlight + 1
         /\ timers' = ts
         /\ saveLog' = "started"
         /\ unsavedTrigger' = IF unsavedTrigger = "pending" THEN "sending"
                               ELSE unsavedTrigger
         /\ UNCHANGED <<timeoutId, backup>>

\* the editor constructs its AutoSave with enableLocalStorage: true
EnableLocalStorage == TRUE

\* the backup after save(): localStorage.removeItem in the try block after onSave
\* resolved; the catch block leaves it
BackupAfterSave(had, outcome) ==
    IF outcome = "succeeded" /\ EnableLocalStorage THEN FALSE ELSE had

\* trigger(data): clear the timer held, back the data up when there is data, set a
\* new timer
TriggerTimer(data) ==
    LET ts == ClearTimeout(timers, timeoutId)
    IN  /\ ts # TimerIds
        /\ timers' = SetTimeout(ts, NewHandle(ts))
        /\ timeoutId' = NewHandle(ts)
        /\ saveLog' = "trigger"
        /\ backup' = IF EnableLocalStorage /\ Truthy(data) THEN TRUE ELSE backup
        /\ unsavedTrigger' = IF Truthy(data) THEN "pending" ELSE unsavedTrigger
        /\ UNCHANGED <<isSaving, inFlight>>

\* trigger() as the editor calls it, with data, and with no argument
Trigger ==
    /\ \E data \in {"graph", Undef} : TriggerTimer(data)
    /\ UNCHANGED <<handlers, storeVars, viewVars>>

\* saveImmediate(): clear the timer held, then save()
SaveImmediate ==
    /\ Save(ClearTimeout(timers, timeoutId))
    /\ UNCHANGED <<handlers, storeVars, viewVars>>

\* a pending timer fires and runs save(); timeoutId keeps the spent handle
TimerFires ==
    /\ \E t \in timers : Save(timers \ {t})
    /\ UNCHANGED <<handlers, storeVars, viewVars>>

\* the onSave promise settles: onSaveSuccess or onSaveError, then the finally block
Settled(outcome) ==
    /\ inFlight > 0
    /\ saveLog' = outcome
    /\ inFlight' = inFlight - 1
    /\ isSaving' = FALSE
    /\ timeoutId' = 0
    /\ backup' = BackupAfterSave(backup, outcome)
    /\ unsavedTrigger' = IF unsavedTrigger = "sending"
                          THEN (IF outcome = "succeeded" THEN "none" ELSE "pending")
                          ELSE unsavedTrigger
    /\ UNCHANGED timers

SaveSettles ==
    /\ \E outcome \in {"succeeded", "failed"} : Settled(outcome)
    /\ UNCHANGED <<handlers, storeVars, viewVars>>

\* cancel(): clear the timer held
Cancel ==
    /\ timers' = ClearTimeout(timers, timeoutId)
    /\ timeoutId' = 0
    /\ saveLog' = "cancelled"
    /\ UNCHANGED <<isSaving, inFlight, backup, unsavedTrigger>>
    /\ UNCHANGED <<handlers, storeVars, viewVars>>

NextAutoSave == Trigger \/ SaveImmediate \/ TimerFires \/ SaveSettles \/ Cancel

SpecAutoSave == Init /\ [][NextAutoSave]_vars

\* every pending timer fires and every onSave promise settles
FairAutoSave == SpecAutoSave /\ WF_vars(TimerFires) /\ WF_vars(SaveSettles)

-----------------------------------------------------------------------------
(* Properties *)

RootsOf(g) == {n \in DOMAIN nodes : nodes[n].dagId = g /\ nodes[n].type = "root"}

\* C1: whatever the saves carried, every graph has exactly one node of kind root,
\* and that node is at (0,0)
C1_RootInvariant ==
    \A g \in DOMAIN dags :
        /\ Cardinality(RootsOf(g)) = 1
        /\ \A n \in RootsOf(g) : nodes[n].x = 0 /\ nodes[n].y = 0

\* C2: a successful save of an empty node list and an empty edge list leaves graph
\* g1 with no node but its roots, which survive, and with no edge
C2_EmptySaveDeletesAll ==
    [][(SaveGraph("g1", Empty, Empty, FALSE) /\ resp'.status = 200) =>
          /\ {n \in DOMAIN nodes' : nodes'[n].dagId = "g1"} = RootsOf("g1")
          /\ \A n \in RootsOf("g1") : nodes'[n] = nodes[n]
          /\ {e \in DOMAIN edges' : edges'[e].dagId = "g1"} = {}]_vars

\* C3: a save that fails (400, 404 or 500) leaves the node rows and the edge rows
\* exactly as they were before the call
C3_FailedSaveChangesNothing ==
    [][(resp'.op = "saveGraph" /\ resp'.status # 200) =>
          (nodes' = nodes /\ edges' = edges)]_vars

\* a save has failed inside its transaction on a store that holds non-root nodes
\* and an edge, which are still there
C3_Witness ==
    /\ resp.op = "saveGraph"
    /\ resp.status = 500
    /\ {"n1", "n2"} \subseteq DOMAIN nodes
    /\ "ea" \in DOMAIN edges

SamePair(e, f) ==
    /\ edges[e].dagId = edges[f].dagId
    /\ edges[e].sourceId = edges[f].sourceId
    /\ edges[e].targetId = edges[f].targetId

\* C4: after any sequence of event submissions and edits that ask for an edge, no
\* two edges of a graph join the same ordered pair of nodes
C4_AtMostOneDerivedEdge ==
    \A e \in DOMAIN edges : \A f \in DOMAIN edges : SamePair(e, f) => e = f

\* two events were submitted for n1 -> n2 with the edge flag, and one edge joins
\* the pair: the one the first event derived
C4_Witness ==
    /\ resp.op = "createEvent" /\ resp.status = 200 /\ resp.createdEdge = Null
    /\ \E v \in DOMAIN events : \E w \in DOMAIN events :
          /\ v # w
          /\ events[v].sourceNodeId = "n1" /\ events[v].targetNodeId = "n2"
          /\ events[w].sourceNodeId = "n1" /\ events[w].targetNodeId = "n2"
          /\ events[v].createdEdgeId # Null
          /\ events[w].createdEdgeId = Null
          /\ Cardinality({e \in DOMAIN edges :
                edges[e].sourceId = "n1" /\ edges[e].targetId = "n2"}) = 1

\* C5: in every persisted state a graph holds at most one edge per ordered pair
\* of nodes, whether the edges came from saves or from events
C5_EdgeUniqueness ==
    \A g \in DOMAIN dags :
        Cardinality(EdgesOf(g)) =
            Cardinality({<<edges[e].sourceId, edges[e].targetId>> : e \in EdgesOf(g)})

\* createEdge is the boolean true and both ends are named
AsksForEdge(req) ==
    /\ req.createEdge = JsTrue
    /\ req.sourceNodeId \notin {Undef, Null, ""}
    /\ req.targetNodeId \notin {Undef, Null, ""}

\* C6: a successful submission that asks for an edge between two nodes no edge yet
\* joins adds exactly one edge: from the source to the target, labelled with the
\* trimmed title, tagged with the new event, and recorded as the event's
\* createdEdgeId
C6_DerivedEdgeProvenance ==
    [][(resp'.op = "createEvent" /\ resp'.status = 200) =>
          \A req \in {r \in EventRequests : AsksForEdge(r)} :
              (/\ CreateEvent(req, FALSE)
               /\ ~\E e \in DOMAIN edges :
                     /\ edges[e].dagId = req.dagId
                     /\ edges[e].sourceId = req.sourceNodeId
                     /\ edges[e].targetId = req.targetNodeId)
              => \E e \in DOMAIN edges' \ DOMAIN edges :
                    /\ DOMAIN edges' = DOMAIN edges \cup {e}
                    /\ \A f \in DOMAIN edges : edges'[f] = edges[f]
                    /\ edges'[e].dagId = req.dagId
                    /\ edges'[e].sourceId = req.sourceNodeId
                    /\ edges'[e].targetId = req.targetNodeId
                    /\ edges'[e].label = Trim(req.title)
                    /\ edges'[e].createdFromEventId = EventId(eventSeq')
                    /\ DOMAIN events' = DOMAIN events \cup {EventId(eventSeq')}
                    /\ EventId(eventSeq') \notin DOMAIN events
                    /\ events'[EventId(eventSeq')].createdEdgeId = e
                    /\ resp'.createdEdge = e]_vars

\* the submission of " Met " from n1 to n2 has derived the edge labelled "Met"
C6_Witness ==
    /\ resp.op = "createEvent" /\ resp.status = 200 /\ resp.createdEdge # Null
    /\ edges[resp.createdEdge].label = "Met"
    /\ edges[resp.createdEdge].sourceId = "n1"
    /\ edges[resp.createdEdge].targetId = "n2"
    /\ events[edges[resp.createdEdge].createdFromEventId].createdEdgeId = resp.createdEdge

C8_RejectedCreatesNothing ==
    [][(resp'.op = "createEvent" /\ resp'.status = 400) =>
          (events' = events /\ edges' = edges /\ eventTypes' = eventTypes)]_vars

\* C9: every persisted event names a source, a target or at least one participant
C9_EventLinksANode ==
    \A v \in DOMAIN events :
        \/ events[v].sourceNodeId # Null
        \/ events[v].targetNodeId # Null
        \/ events[v].participants # {}

\* the role name contains "evidence leader", whatever its case
IsLeaderRole(roleName) ==
    \E i \in 1..(Len(roleName) - 14) :
        ToLowerCase(SubSeq(roleName, i, i + 14)) = "evidence leader"

\* C10: a successful save that includes a persisted non-root node stores for it
\* evidenceLeader when the role name of its entity contains "evidence leader" and
\* custom otherwise, whatever kind the request gives it, and the next load
\* returns that kind
C10_KindFollowsRole ==
    [][\A cnodes \in NodePayloads :
          (SaveGraph("g1", cnodes, EchoEdges("g1"), FALSE) /\ resp'.status = 200) =>
              \A n \in DOMAIN cnodes \cap DOMAIN nodes :
                  nodes[n].type # "root" =>
                      LET leader == IsLeaderRole(roles[entities[nodes[n].entityId].roleId].name)
                          kind == IF leader THEN "evidenceLeader" ELSE "custom"
                      IN  /\ nodes'[n].type = kind
                          /\ HydratedKind(nodes'[n].type,
                                 roles[entities[nodes'[n].entityId].roleId].name) = kind]_vars

\* C11: whatever the order of trigger(), saveImmediate(), timer firings and
\* settled saves, at most one onSave invocation is in progress
C11_OneSaveInFlight == inFlight <= 1

\* a save is in progress while a timer is pending and another save was asked for
C11_Witness ==
    /\ inFlight = 1
    /\ isSaving
    /\ saveLog = "rescheduled"
    /\ timers # {}

\* C12: once save() found a save in progress and rescheduled itself, a new onSave
\* invocation starts later, unless cancel() is called
C12_QueuedSaveRuns ==
    (saveLog = "rescheduled") ~> (saveLog = "started" \/ saveLog = "cancelled")

\* the in-flight save has failed while the rescheduled timer is pending, no longer
\* held by timeoutId
C12_Witness ==
    /\ saveLog = "failed"
    /\ ~isSaving
    /\ timeoutId = 0
    /\ timers # {}

\* C13: a reorder is accepted only when its ids are, without repetition, exactly
\* the events of the graph on the date, and a rejected reorder changes no event
C13_ReorderNeedsExactSet ==
    [][\A req \in ReorderRequests :
          ReorderEvents("g1", req.date, List(req.ids)) =>
              /\ resp'.status = 200 =>
                    /\ Range(req.ids) = EventsOnDay("g1", ParseDate(req.date))
                    /\ Cardinality(Range(req.ids)) = Len(req.ids)
              /\ resp'.status # 200 => events' = events]_vars

\* C14: after a successful reorder each listed event's sortOrder is its index in
\* the list, counted from zero, and every event not on that date is unchanged
C14_ReorderWritesIndexes ==
    [][(resp'.op = "reorderEvents" /\ resp'.status = 200) =>
       \A req \in ReorderRequests :
          ReorderEvents("g1", req.date, List(req.ids)) =>
              /\ \A i \in 1..Len(req.ids) : events'[req.ids[i]].sortOrder = i - 1
              /\ DOMAIN events' = DOMAIN events
              /\ \A e \in DOMAIN events \ EventsOnDay("g1", ParseDate(req.date)) :
                    events'[e] = events[e]]_vars

\* a reorder has put v2 before v1 on their day, and v3, of another day, kept the
\* sortOrder 0 it was created with
C14_Witness ==
    /\ resp.op = "reorderEvents" /\ resp.status = 200
    /\ {"v1", "v2", "v3"} \subseteq DOMAIN events
    /\ events["v1"].date.day = "2024-03-01" /\ events["v2"].date.day = "2024-03-01"
    /\ events["v3"].date.day = "2024-03-02"
    /\ events["v1"].sortOrder = 1 /\ events["v2"].sortOrder = 0
    /\ events["v3"].sortOrder = 0

\* the events of es that share the day of event n, or its series day when n has
\* no date
SameDayAs(es, n) ==
    {e \in DOMAIN es \ {n} :
        /\ es[e].dagId = es[n].dagId
        /\ IF es[n].date # NullDate
           THEN es[e].date # NullDate /\ es[e].date.day = es[n].date.day
           ELSE es[n].seriesDay # Null /\ es[e].seriesDay = es[n].seriesDay}

\* C15: a created event gets sortOrder 0 when no event of its graph shares its
\* day, and else one more than the largest sortOrder among them, and the listing
\* shows it after every one of them
C15_NewEventListedLast ==
    [][(resp'.op = "createEvent" /\ resp'.status = 200 /\ eventSeq' = eventSeq + 1) =>
          LET n == EventId(eventSeq')
              same == SameDayAs(events', n)
          IN  /\ events'[n].sortOrder =
                    IF same = {} THEN 0
                    ELSE 1 + Max({events'[e].sortOrder : e \in same})
              /\ \A e \in same : ListedBefore(events', e, n)]_vars

\* a request whose event cannot be created: its participant is no node
Unlinkable == EventRequest("Paid", "2024-03-01", Undef, Undef, List(<<"nX">>), JsTrue)

\* what the caller receives when the creation of the event itself fails
FailedCreation ==
    [op |-> "createEvent",
     status |-> CreateEventResult(Unlinkable, FALSE).status,
     createdEdge |-> CreateEventResult(Unlinkable, FALSE).createdEdge]

\* C16: when the insert of the derived edge fails after the event was created,
\* the event stays persisted without an edge, and the response differs from the
\* response to a failed creation of the event
C16_PartialSuccessReported ==
    [][(/\ CreateEvent(Meeting, TRUE)
        /\ ~\E e \in DOMAIN edges :
              /\ edges[e].dagId = "g1"
              /\ edges[e].sourceId = "n1"
              /\ edges[e].targetId = "n2")
       => /\ EventId(eventSeq') \in DOMAIN events' \ DOMAIN events
          /\ events'[EventId(eventSeq')].createdEdgeId = Null
          /\ edges' = edges
          /\ resp' # FailedCreation]_vars

\* C17: a successful edit that changes the title of an event that has a provenance
\* edge leaves that edge labelled with the new trimmed title, whatever createEdge
\* flag and endpoints the edit carries
C17_LabelFollowsTitle ==
    [][(resp'.op = "updateEvent" /\ resp'.status = 200) =>
          \A v \in DOMAIN events :
              (events[v].createdEdgeId # Null /\ events'[v].title # events[v].title) =>
                  /\ events[v].createdEdgeId \in DOMAIN edges'
                  /\ edges'[events[v].createdEdgeId].label = events'[v].title]_vars

-----------------------------------------------------------------------------
(* Node creation in the two views: the Add Node dialog, the event dialog's  *)
(* 'Create New' target, and createNodeFromEntity                            *)

\* how many Entity rows, and how many nodes, the views create
MaxMade == 2

\* the ids the store gives the Entity rows it creates
CreatedEntityIds == [i \in 1..MaxMade |-> "y" \o ToString(i)]

\* node-<Date.now()>-<random>: an id never generated before
NewNodeId == "d" \o ToString(nodeSeq + 1)

\* the node of a save request for a node a view holds
SentNodes(view) ==
    [n \in DOMAIN view |-> ClientNode(view[n].entityId, view[n].position, view[n].type)]

\* GET /api/entities?q=: the rows whose name contains the query (LIKE, which
\* ignores ASCII case); fewer than two characters find nothing. The take: 10
\* cut-off never applies to the rows of this model.
SearchEntities(query) ==
    IF Len(query) < 2 THEN {}
    ELSE {e \in DOMAIN entities :
            Includes(ToLowerCase(entities[e].name), ToLowerCase(query))}

\* GET /api/entities?q=&dagId=: the entities of the graph's stored nodes
EntitiesInDag(g) == {nodes[n].entityId : n \in NodesOf(Store, g)}

\* the comparison of the Add Node dialog's duplicate check
NameKey(name) == Trim(ToLowerCase(name))

\* POST /api/entities: the name has at least two characters and the role exists
CreateEntityStatus(name, roleId) ==
    IF Len(name) < 2 \/ roleId \notin DOMAIN roles THEN 400 ELSE 200

\* the response summary of a createNodeFromEntity call
Derived(view, entityId, node) ==
    [op |-> "createNodeFromEntity", view |-> view, entityId |-> entityId, node |-> node]

\* the node both views build for an entity; the position search is not modelled
NewNode(entityId) ==
    ViewNode(entityId, entities[entityId].name, entities[entityId].roleId, Moved, "custom")

\* setHasUnsavedChanges(true), which the handlers call after they added to the canvas
MarkedUnsaved(added) == IF added THEN TRUE ELSE hasUnsavedChanges

\* createNodeFromEntity of the graph view: the node already on the canvas, or a
\* new canvas node when the entity is among the graph's stored entities
CanvasCreateNodeFromEntity(entityId) ==
    LET existing == {n \in DOMAIN canvas.nodes : canvas.nodes[n].entityId = entityId}
        id == NewNodeId
    IN  /\ IF existing # {}
           THEN /\ \E n \in existing : resp' = Derived("graph", entityId, n)
                /\ UNCHANGED canvas
           ELSE IF entityId \notin EntitiesInDag("g1")
           THEN /\ resp' = Derived("graph", entityId, Null)
                /\ UNCHANGED canvas
           ELSE /\ nodeSeq < MaxMade
                /\ canvas' = [canvas EXCEPT !.nodes = With(@, id, NewNode(entityId))]
                /\ resp' = Derived("graph", entityId, id)
        /\ nodeSeq' = IF resp'.node = id THEN nodeSeq + 1 ELSE nodeSeq
        /\ hasUnsavedChanges' = MarkedUnsaved(resp'.node = id)
        /\ UNCHANGED <<dags, roles, entities, nodes, edges, events, eventTypes, eventSeq>>
        /\ UNCHANGED <<handlers, autoSaveVars, relationshipTypes, allNodes, effectVars>>

\* createNodeFromEntity of the timeline view: fetch the entity, build the node,
\* save allNodes plus the node with the graph's stored edges, then setAllNodes
TimelineCreateNodeFromEntity(entityId) ==
    LET id == NewNodeId
        updatedNodes == With(allNodes, id, NewNode(entityId))
        out == SaveGraphOutcome("g1", SentNodes(updatedNodes), EchoEdges("g1"), FALSE)
    IN  /\ IF entityId \notin DOMAIN entities
           THEN /\ resp' = Derived("timeline", entityId, Null)
                /\ UNCHANGED <<nodes, edges, events, entities, allNodes, nodeSeq>>
           ELSE /\ nodeSeq < MaxMade
                /\ nodeSeq' = nodeSeq + 1
                /\ entities' = out.db.entities
                /\ nodes' = out.db.nodes
                /\ edges' = out.db.edges
                /\ events' = out.db.events
                /\ IF out.status = 200
                   THEN /\ allNodes' = updatedNodes
                        /\ resp' = Derived("timeline", entityId, id)
                   ELSE /\ resp' = Derived("timeline", entityId, Null)
                        /\ UNCHANGED allNodes
        /\ UNCHANGED <<dags, roles, eventTypes, eventSeq>>
        /\ UNCHANGED <<handlers, autoSaveVars, relationshipTypes, canvas, hasUnsavedChanges, effectVars>>

\* what the Add Node dialog submits: a name, a role and, when the user picked a
\* search result, the entity to link
NewNodeData(name, roleId, entityId) == [name |-> name, roleId |-> roleId, entityId |-> entityId]

\* handleAddNode: checks, role lookup, entity lookup by name or creation, then a
\* node for the entity and an edge from the selected node on the canvas
HandleAddNode(selected, data) ==
    LET rejected == \/ selected \notin DOMAIN canvas.nodes
                    \/ Falsy(data.name) \/ Trim(data.name) = ""
                    \/ Falsy(data.roleId) \/ Trim(data.roleId) = ""
                    \/ data.roleId \notin DOMAIN roles
        exactMatch == {e \in SearchEntities(Trim(data.name)) :
                          NameKey(entities[e].name) = ToLowerCase(Trim(data.name))}
        found == IF Truthy(data.entityId) THEN {data.entityId}
                 ELSE IF exactMatch # {} THEN exactMatch ELSE {Null}
        created == FreshId(CreatedEntityIds, DOMAIN entities)
        id == NewNodeId
        node(e) == ViewNode(e, Trim(data.name), data.roleId, Moved, "custom")
        edge == ClientEdge(selected, id, "Connected", Undef)
        placed(e) == [nodes |-> With(canvas.nodes, id, node(e)),
                      edges |-> With(canvas.edges, CanvasEdgeId(selected, id), edge)]
    IN  /\ IF rejected
           THEN /\ resp' = [op |-> "addNode", status |-> 400, entityId |-> Null]
                /\ UNCHANGED <<entities, canvas, nodeSeq>>
           ELSE \E e \in found :
                  IF e # Null
                  THEN /\ nodeSeq < MaxMade
                       /\ nodeSeq' = nodeSeq + 1
                       /\ canvas' = placed(e)
                       /\ resp' = [op |-> "addNode", status |-> 200, entityId |-> e]
                       /\ UNCHANGED entities
                  ELSE IF CreateEntityStatus(Trim(data.name), data.roleId) # 200
                  THEN /\ resp' = [op |-> "addNode", status |-> 400, entityId |-> Null]
                       /\ UNCHANGED <<entities, canvas, nodeSeq>>
                  ELSE /\ HasFresh(CreatedEntityIds, DOMAIN entities)
                       /\ nodeSeq < MaxMade
                       /\ nodeSeq' = nodeSeq + 1
                       /\ entities' = With(entities, created,
                              [name |-> Trim(data.name), roleId |-> data.roleId,
                               description |-> Null])
                       /\ canvas' = placed(created)
                       /\ resp' = [op |-> "addNode", status |-> 200, entityId |-> created]
        /\ hasUnsavedChanges' = MarkedUnsaved(resp'.status = 200)
        /\ UNCHANGED <<dags, roles, nodes, edges, events, eventTypes, eventSeq>>
        /\ UNCHANGED <<handlers, autoSaveVars, relationshipTypes, allNodes, creating, effectVars>>

\* handleCreateNewTargetNode up to its first await: checks, then createEntity
\* with the trimmed name; the node is derived once the entity is back
HandleCreateNewTargetNode(view, newTargetName, newTargetRoleId) ==
    LET status == IF Trim(newTargetName) = "" \/ Falsy(newTargetRoleId) THEN 0
                  ELSE CreateEntityStatus(Trim(newTargetName), newTargetRoleId)
        created == FreshId(CreatedEntityIds, DOMAIN entities)
    IN  /\ creating = NoTarget
        /\ IF status = 200
           THEN /\ HasFresh(CreatedEntityIds, DOMAIN entities)
                /\ entities' = With(entities, created,
                       [name |-> Trim(newTargetName), roleId |-> newTargetRoleId,
                        description |-> Null])
                /\ creating' = [entityId |-> created, view |-> view]
                /\ resp' = [op |-> "createEntity", status |-> 200, entityId |-> created]
           ELSE /\ resp' = [op |-> "createEntity", status |-> status, entityId |-> Null]
                /\ UNCHANGED <<entities, creating>>
        /\ UNCHANGED <<dags, roles, nodes, edges, events, eventTypes, eventSeq>>
        /\ UNCHANGED <<handlers, autoSaveVars, relationshipTypes, canvas, allNodes, nodeSeq>>
        /\ UNCHANGED <<hasUnsavedChanges, effectVars>>

\* handleDeleteNode: the node and its edges leave the canvas; the handler calls
\* setNodes and setEdges and leaves hasUnsavedChanges as it is
HandleDeleteNode(nodeId) ==
    /\ nodeId \in DOMAIN canvas.nodes
    /\ canvas' = [nodes |-> Without(canvas.nodes, {nodeId}),
                  edges |-> Without(canvas.edges,
                      {e \in DOMAIN canvas.edges :
                          canvas.edges[e].source = nodeId \/ canvas.edges[e].target = nodeId})]
    /\ resp' = [op |-> "deleteNode", status |-> 200]
    /\ UNCHANGED <<dags, roles, entities, nodes, edges, events, eventTypes, eventSeq>>
    /\ UNCHANGED <<handlers, autoSaveVars, relationshipTypes, allNodes, creating, nodeSeq>>
    /\ UNCHANGED <<hasUnsavedChanges, effectVars>>

\* fetchNodes: the timeline reloads the graph's nodes. The GET creates nothing
\* here, g1 and its root are stored in every state.
FetchNodes ==
    /\ allNodes' = [n \in NodesOf(Store, "g1") |-> HydrateNode(Store, n)]
    /\ resp' = [op |-> "fetchNodes", status |-> 200]
    /\ UNCHANGED <<dags, roles, entities, nodes, edges, events, eventTypes, eventSeq>>
    /\ UNCHANGED <<handlers, autoSaveVars, relationshipTypes, canvas, creating, nodeSeq>>
    /\ UNCHANGED <<hasUnsavedChanges, effectVars>>

\* the names typed into the dialogs: a stored name in another case with spaces
\* around it, a new name, a name too short to store, a blank name
TypedNames == {" ann ", "Cy", "C", "  "}

\* what the Add Node dialog submits: each name with a stored role, a picked
\* search result, an unknown role, no role; and one submission with no node selected
AddNodeRequests ==
    {<<"n0", NewNodeData(name, "rWit", Undef)>> : name \in TypedNames}
    \cup {<<"n0", NewNodeData("Bob", "rWit", "e2")>>,
          <<"n0", NewNodeData("Cy", "rX", Undef)>>,
          <<"n0", NewNodeData("Cy", "", Undef)>>,
          <<"nX", NewNodeData("Cy", "rWit", Undef)>>}

\* the entities a derivation is asked for: stored with a node, unknown
DerivableEntities == {"e1", "eX"}

AddNode == \E req \in AddNodeRequests : HandleAddNode(req[1], req[2])

CreateNewTarget ==
    \E view \in {"graph", "timeline"}, name \in TypedNames \ {"Cy"} :
        HandleCreateNewTargetNode(view, name, "rWit")

\* handleCreateNewTargetNode after createEntity: onCreateNode(newEntity.id)
DeriveNewTarget ==
    /\ creating # NoTarget
    /\ IF creating.view = "graph"
       THEN CanvasCreateNodeFromEntity(creating.entityId)
       ELSE TimelineCreateNodeFromEntity(creating.entityId)
    /\ creating' = NoTarget

DeriveOnCanvas ==
    /\ \E entityId \in DerivableEntities : CanvasCreateNodeFromEntity(entityId)
    /\ UNCHANGED creating

DeriveInTimeline ==
    /\ \E entityId \in DerivableEntities : TimelineCreateNodeFromEntity(entityId)
    /\ UNCHANGED creating

DeleteNode == HandleDeleteNode("n1")

\* the editor's save of the canvas
SaveCanvas == SaveGraph("g1", SentNodes(canvas.nodes), canvas.edges, FALSE)

NextNodes ==
    \/ AddNode \/ CreateNewTarget \/ DeriveNewTarget
    \/ DeriveOnCanvas \/ DeriveInTimeline \/ DeleteNode \/ FetchNodes \/ SaveCanvas

SpecNodes == Init /\ [][NextNodes]_vars

\* the stored nodes of graph g1 that reference entity e
NodesFor(rows, e) == {n \in DOMAIN rows : rows[n].dagId = "g1" /\ rows[n].entityId = e}

C19_NoDuplicateEntities ==
    \A a, b \in DOMAIN entities :
        a # b => NameKey(entities[a].name) # NameKey(entities[b].name)

-----------------------------------------------------------------------------
(* The registries: POST /api/roles and POST /api/relationships              *)

\* how many rows each registry creates
MaxRegistered == 2

RoleCategories ==
    {"official", "law_enforcement", "political", "business",
     "witness", "suspect", "victim", "civilian"}

\* the ids the store gives the rows it creates
CreatedRoleIds == [i \in 1..MaxRegistered |-> "r" \o ToString(i)]

CreatedRelationshipIds == [i \in 1..MaxRegistered |-> "t" \o ToString(i)]

\* the rows of a registry with this exact name (name is unique: findUnique)
RowsNamed(rows, name) == {r \in DOMAIN rows : rows[r].name = name}

Registered(op, status, id, name, category) ==
    [op |-> op, status |-> status, id |-> id, name |-> name, category |-> category]

\* POST /api/roles: schema check, lookup by the name as sent, creation under the
\* trimmed name; a creation that repeats a stored name fails on the unique index
CreateRole(name, category) ==
    LET existing == RowsNamed(roles, name)
        id == FreshId(CreatedRoleIds, DOMAIN roles)
    IN  /\ IF Len(name) < 1 \/ category \notin RoleCategories
           THEN /\ resp' = Registered("createRole", 400, Null, name, category)
                /\ UNCHANGED roles
           ELSE IF existing # {}
           THEN /\ resp' = Registered("createRole", 200, CHOOSE r \in existing : TRUE,
                                      name, category)
                /\ UNCHANGED roles
           ELSE IF RowsNamed(roles, Trim(name)) # {}
           THEN /\ resp' = Registered("createRole", 500, Null, name, category)
                /\ UNCHANGED roles
           ELSE /\ HasFresh(CreatedRoleIds, DOMAIN roles)
                /\ roles' = With(roles, id,
                       [name |-> Trim(name), category |-> category, isSystem |-> FALSE])
                /\ resp' = Registered("createRole", 200, id, name, category)
        /\ UNCHANGED <<dags, entities, nodes, edges, events, eventTypes, eventSeq>>
        /\ UNCHANGED <<handlers, autoSaveVars, relationshipTypes, viewVars>>

\* POST /api/relationships: name and category must not be blank, lookup and
\* creation both under the trimmed name
CreateRelationship(name, category) ==
    LET existing == RowsNamed(relationshipTypes, Trim(name))
        id == FreshId(CreatedRelationshipIds, DOMAIN relationshipTypes)
    IN  /\ IF Trim(name) = "" \/ Trim(category) = ""
           THEN /\ resp' = Registered("createRelationship", 400, Null, name, category)
                /\ UNCHANGED relationshipTypes
           ELSE IF existing # {}
           THEN /\ resp' = Registered("createRelationship", 200,
                                      CHOOSE r \in existing : TRUE, name, category)
                /\ UNCHANGED relationshipTypes
           ELSE /\ HasFresh(CreatedRelationshipIds, DOMAIN relationshipTypes)
                /\ relationshipTypes' = With(relationshipTypes, id,
                       [name |-> Trim(name), category |-> Trim(category)])
                /\ resp' = Registered("createRelationship", 200, id, name, category)
        /\ UNCHANGED <<dags, roles, entities, nodes, edges, events, eventTypes, eventSeq>>
        /\ UNCHANGED <<handlers, autoSaveVars, viewVars>>

\* role names sent: new, the same with spaces around it, a stored name, blank, empty
RoleNames == {"Boss", " Boss ", "Witness", "  ", ""}

\* relationship names sent: new, the same with spaces around it, a stored name, blank
RelationshipNames == {"Pays", " Pays ", "Knows", "  "}

PostRole ==
    \E name \in RoleNames, category \in {"official", "civilian", "bogus"} :
        CreateRole(name, category)

PostRelationship ==
    \E name \in RelationshipNames, category \in {"Financial", "General", " "} :
        CreateRelationship(name, category)

NextRegistry == PostRole \/ PostRelationship

SpecRegistry == Init /\ [][NextRegistry]_vars

\* the rows of the registry the response is about, before and after the step
RegistryBefore == IF resp'.op = "createRole" THEN roles ELSE relationshipTypes

RegistryAfter == IF resp'.op = "createRole" THEN roles' ELSE relationshipTypes'

\* C20: a getOrCreateByName call on roles or relationship types that repeats, with
\* a valid name and category, the name of the call answered just before it succeeds,
\* returns the same row and changes no row, so that one row carries the name; no
\* call changes a stored row, and every role row a call adds has isSystem false
C20_GetOrCreateIdempotent ==
    [][(resp'.op \in {"createRole", "createRelationship"}) =>
          /\ \A r \in DOMAIN RegistryBefore :
                r \in DOMAIN RegistryAfter /\ RegistryAfter[r] = RegistryBefore[r]
          /\ \A r \in DOMAIN roles' \ DOMAIN roles : roles'[r].isSystem = FALSE
          /\ (resp.op = resp'.op /\ resp.status = 200 /\ resp'.name = resp.name
              /\ (resp'.op = "createRole" => resp'.category \in RoleCategories)
              /\ (resp'.op = "createRelationship" => Trim(resp'.category) # "")) =>
                /\ resp'.status = 200
                /\ resp'.id = resp.id
                /\ RegistryAfter = RegistryBefore
                /\ Cardinality(RowsNamed(RegistryAfter, Trim(resp'.name))) = 1]_vars

-----------------------------------------------------------------------------
(* Loads of any graph between saves that change node kinds *)

\* what a save may carry for the kinds of g1's nodes: the root as loaded or sent as
\* a custom node, n1 as a custom node or sent as a root, n2 as placed, each or none
KindOptions(n) ==
    CASE n = "n0" -> {ClientNode("e0", Origin, "root"), ClientNode("e0", Moved, "custom")}
      [] n = "n1" -> {ClientNode("e1", Moved, "custom"), ClientNode("e1", Moved, "root")}
      [] n = "n2" -> {ClientNode("e2", Moved, "custom")}

KindPayloads ==
    UNION {{f \in [S -> AllNodeOptions] : \A n \in S : f[n] \in KindOptions(n)} :
           S \in SUBSET ClientNodeIds}

SaveKinds == \E cnodes \in KindPayloads : SaveGraph("g1", cnodes, EchoEdges("g1"), FALSE)

\* a load of a graph with nodes, of a graph with only its root, of an unknown graph
LoadAny == \E g \in {"g1", "g2", "gX"} : LoadGraph(g)

NextLoad == SaveKinds \/ LoadAny

SpecLoad == Init /\ [][NextLoad]_vars

\* C21: every successful load returns at least one node, exactly one of the nodes
\* returned is a root, it is at (0,0), and it is a stored root of the graph loaded
C21_LoadSelfHealing ==
    [][(resp'.op = "load" /\ resp'.status = 200) =>
          LET roots == {n \in DOMAIN resp'.nodes : resp'.nodes[n].type = "root"}
          IN  /\ DOMAIN resp'.nodes # {}
              /\ Cardinality(roots) = 1
              /\ \A n \in roots :
                    /\ resp'.nodes[n].position = Origin
                    /\ n \in DOMAIN nodes'
                    /\ nodes'[n].type = "root"
                    /\ nodes'[n].dagId = resp'.dag]_vars

-----------------------------------------------------------------------------
(* Saves that give stored edges a relationship type, between event submissions *)

\* the stored edges as the editor sends them back, each as loaded or with the
\* relationship type chosen in the edge dialog
RelatedEdges ==
    LET echo == EchoEdges("g1")
    IN  {f \in [DOMAIN echo -> {ClientEdge(echo[e].source, echo[e].target, l, r) :
                                   e \in DOMAIN echo, l \in {echo[x].label : x \in DOMAIN echo},
                                   r \in {Undef, "rt1"}}] :
            \A e \in DOMAIN echo :
                /\ f[e].source = echo[e].source
                /\ f[e].target = echo[e].target
                /\ f[e].label = echo[e].label
                /\ f[e].relationshipTypeId \in {echo[e].relationshipTypeId, "rt1"}}

SaveRelated ==
    LET echo == EchoNodes("g1")
    IN  \E cedges \in RelatedEdges : SaveGraph("g1", echo, cedges, FALSE)

SubmitEndpoints ==
    /\ eventSeq < MaxEvents
    /\ \E req \in EndpointRequests : CreateEvent(req, FALSE)

NextLabels == SubmitEndpoints \/ EditEvent \/ SaveRelated

SpecLabels == Init /\ [][NextLabels]_vars

\* C22: no stored edge has both a relationship type and a label
C22_LabelXorRelationship ==
    \A e \in DOMAIN edges : edges[e].relationshipTypeId = Null \/ edges[e].label = Null

-----------------------------------------------------------------------------
(* Entity edits between saves and loads *)

\* the edits sent: a new name, a name too short, a role, a description, a
\* description cleared, name and description together
EntityEdits ==
    {EntityData("Anna", Undef, Undef), EntityData("A", Undef, Undef),
     EntityData(Undef, "rLead", Undef), EntityData(Undef, Undef, "seen at the depot"),
     EntityData(Undef, Undef, Null), EntityData("Anna", "rLead", "seen at the depot")}

EditEntityData == \E id \in {"e1", "eX"}, data \in EntityEdits : UpdateEntityData(id, data)

NextEntity == EditEntityData \/ SaveKinds \/ Load

SpecEntity == Init /\ [][NextEntity]_vars

\* C23: a save leaves every Entity row as it was, whatever the client's nodes carry
\* and whichever nodes it deletes; every load returns, for each node, the name, role
\* and description its entity has at that moment
C23_EntityIsSourceOfTruth ==
    [][/\ (resp'.op = "saveGraph") => entities' = entities
       /\ (resp'.op = "load" /\ resp'.status = 200) =>
             \A n \in DOMAIN resp'.nodes :
                LET entity == entities'[nodes'[n].entityId]
                    shown == resp'.nodes[n]
                IN  /\ shown.label = entity.name
                    /\ shown.roleId = entity.roleId
                    /\ shown.description = IF entity.description \in {Null, ""}
                                           THEN Undef ELSE entity.description]_vars

\* a load that shows n1 under the name and description its entity was given by an
\* edit, with no save since the graph was created
C23_Witness ==
    /\ resp.op = "load"
    /\ resp.nodes["n1"].label = "Anna"
    /\ resp.nodes["n1"].description = "seen at the depot"
    /\ nodes["n1"].x = 0

-----------------------------------------------------------------------------
(* Events linked to nodes of this graph and of another one *)

\* the links sent: two nodes of the graph, a participant of the graph, a participant
\* that is a node of another graph, a target and a source outside the graph
LinkRequests ==
    {Meeting,
     EventRequest("Paid", "2024-03-01", Undef, Undef, List(<<"n1">>), Undef),
     EventRequest("Paid", "2024-03-01", "n1", Undef, List(<<"m0">>), Undef),
     EventRequest("Seen", "2024-03-02", Undef, Undef, List(<<"n2", "m0">>), Undef),
     [Meeting EXCEPT !.targetNodeId = "m0"],
     [Meeting EXCEPT !.sourceNodeId = "m0", !.createEdge = Undef]}

SubmitLinked ==
    /\ eventSeq < MaxEvents
    /\ \E req \in LinkRequests : CreateEvent(req, FALSE)

EditLinked == \E id \in DOMAIN events, req \in LinkRequests : UpdateEvent(id, req, FALSE)

NextLinks == SubmitLinked \/ EditLinked

SpecLinks == Init /\ [][NextLinks]_vars

\* the nodes an event row references: its source, its target, its participants
EventNodes(ev) == ({ev.sourceNodeId, ev.targetNodeId} \ {Null}) \cup ev.participants

\* C24: every node a stored event references (source, target, each participant) is a
\* node of the event's own graph
C24_EventNodesInGraph ==
    \A v \in DOMAIN events :
        \A n \in EventNodes(events[v]) :
            n \in DOMAIN nodes /\ nodes[n].dagId = events[v].dagId

\* the source and the target of every stored event are nodes of its graph (the two
\* references the handlers look up with findFirst({id, dagId}))
EndpointsInGraph ==
    \A v \in DOMAIN events :
        \A n \in {events[v].sourceNodeId, events[v].targetNodeId} \ {Null} :
            n \in DOMAIN nodes /\ nodes[n].dagId = events[v].dagId

-----------------------------------------------------------------------------
(* DELETE /api/events/[id] *)

\* a store in which deleting an event takes the edge derived from it along
EdgesCascaded(es, id) == Without(es, {e \in DOMAIN es : es[e].createdFromEventId = id})

\* the edge rows after event.delete({id}): Event.createdEdgeId refers to the edge,
\* no edge column refers to the event by a foreign key, so no edge row is touched
EdgesAfterEventDelete(es, id) == es

\* 404 for an unknown id, else the event row is deleted
DeleteEvent(id) ==
    /\ IF id \notin DOMAIN events
       THEN /\ resp' = [op |-> "deleteEvent", status |-> 404, id |-> id]
            /\ UNCHANGED <<events, edges>>
       ELSE /\ events' = Without(events, {id})
            /\ edges' = EdgesAfterEventDelete(edges, id)
            /\ resp' = [op |-> "deleteEvent", status |-> 200, id |-> id]
    /\ UNCHANGED <<dags, roles, entities, nodes, eventTypes, eventSeq>>
    /\ UNCHANGED <<handlers, autoSaveVars, relationshipTypes, viewVars>>

RemoveEvent == \E id \in DOMAIN events \cup {"vX"} : DeleteEvent(id)

NextDelete == SubmitEndpoints \/ SubmitLinked \/ RemoveEvent

SpecDelete == Init /\ [][NextDelete]_vars

\* C25: deleteEvent of a stored event removes that event row and nothing else: every
\* edge (the one the event derived included), every node and every other event is as
\* before; deleteEvent of an unknown id is answered 404 and changes nothing
C25_DeleteRemovesOnlyEvent ==
    [][(resp'.op = "deleteEvent") =>
          /\ nodes' = nodes
          /\ edges' = edges
          /\ resp'.status = IF resp'.id \in DOMAIN events THEN 200 ELSE 404
          /\ events' = Without(events, {resp'.id})
          /\ resp'.status = 404 => events' = events]_vars

\* an event that derived an edge was deleted and the edge is still stored
C25_Witness ==
    /\ resp.op = "deleteEvent"
    /\ resp.status = 200
    /\ resp.id \notin DOMAIN events
    /\ \E e \in DOMAIN edges : edges[e].createdFromEventId = resp.id

-----------------------------------------------------------------------------
(* What a load returns for the edges after a save *)

\* the edges of graph g a load would return, reduced to their endpoints
StoredEndpoints(es, g) ==
    [e \in {x \in DOMAIN es : es[x].dagId = g} |->
        [source |-> es[e].sourceId, target |-> es[e].targetId]]

\* the endpoints the client submitted
SentEndpoints(cedges) ==
    [e \in DOMAIN cedges |-> [source |-> cedges[e].source, target |-> cedges[e].target]]

\* C26: after a successful save the stored edges of the graph, which the next load
\* returns, are exactly the submitted edge ids, each with the submitted source and target
C26_EdgeRoundTrip ==
    [][\A cedges \in EdgePayloads :
          (SaveGraph("g1", EchoNodes("g1"), cedges, FALSE) /\ resp'.status = 200) =>
              StoredEndpoints(edges', "g1") = SentEndpoints(cedges)]_vars

\* the same for saves that submit at least one edge, so that the delete step runs
EdgeRoundTripNonEmpty ==
    [][\A cedges \in EdgePayloads \ {Empty} :
          (SaveGraph("g1", EchoNodes("g1"), cedges, FALSE) /\ resp'.status = 200) =>
              StoredEndpoints(edges', "g1") = SentEndpoints(cedges)]_vars

-----------------------------------------------------------------------------
(* Saves of one graph that name rows of another graph *)

\* the rows of graph g
RowsOf(rows, g) == [r \in {x \in DOMAIN rows : rows[x].dagId = g} |-> rows[r]]

\* a save of g that sends, next to g's own nodes as loaded, a node whose id is
\* stored in another graph
SaveForeignNode ==
    \E g \in {"g1", "g2"}, n \in DOMAIN nodes, p \in Points, t \in {"custom", "root"} :
        /\ nodes[n].dagId # g
        /\ SaveGraph(g, With(EchoNodes(g), n, ClientNode(nodes[n].entityId, p, t)),
                     EchoEdges(g), FALSE)

\* a save of g that sends, next to g's own edges as loaded, an edge whose id is
\* stored in another graph
SaveForeignEdge ==
    \E g \in {"g1", "g2"}, e \in DOMAIN edges, a \in DOMAIN nodes :
        /\ edges[e].dagId # g
        /\ nodes[a].dagId = g
        /\ SaveGraph(g, EchoNodes(g),
                     With(EchoEdges(g), e, ClientEdge(a, a, "taken", Undef)), FALSE)

NextForeign == SaveForeignNode \/ SaveForeignEdge \/ SaveEdges

SpecForeign == Init /\ [][NextForeign]_vars

\* C27: a save of graph g leaves the node rows and the edge rows of every other
\* graph as they were
C27_SaveTouchesOneGraph ==
    [][(resp'.op = "saveGraph") =>
          \A h \in DOMAIN dags \ {resp'.dag} :
              /\ RowsOf(nodes', h) = RowsOf(nodes, h)
              /\ RowsOf(edges', h) = RowsOf(edges, h)]_vars

-----------------------------------------------------------------------------
(* The timers an AutoSave instance has pending *)

\* C28: an AutoSave instance has at most one save timer pending at any time
C28_OnePendingTimer == Cardinality(timers) <= 1

\* C29: once cancel() has returned with no save in flight, no timer of the instance
\* fires into save() before the next trigger() or saveImmediate()
C29_CancelStopsPendingSave ==
    [][(saveLog = "cancelled" /\ inFlight = 0) => ~TimerFires]_vars

-----------------------------------------------------------------------------
(* The graph editor: edits of the canvas, the trigger effect, the auto-save *)

\* onNodesChange with a position change: a root node is put back at (0,0), any
\* other node takes the position; hasUnsavedChanges is not set
OnNodesChange(n, p) ==
    /\ n \in DOMAIN canvas.nodes
    /\ canvas' = [canvas EXCEPT !.nodes[n].position =
                     IF canvas.nodes[n].type = "root" THEN Origin ELSE p]
    /\ UNCHANGED <<handlers, storeVars, autoSaveVars, allNodes, creating, nodeSeq>>
    /\ UNCHANGED <<hasUnsavedChanges, effectVars>>

\* handleConfirmConnection with no event asked for: the edge joins the canvas
HandleConfirmConnection(source, target, relationship) ==
    /\ {source, target} \subseteq DOMAIN canvas.nodes
    /\ ~(canvas.nodes[source].type = "root" /\ canvas.nodes[target].type = "root")
    /\ canvas' = [canvas EXCEPT !.edges = With(@, CanvasEdgeId(source, target),
                     ClientEdge(source, target, relationship, Undef))]
    /\ hasUnsavedChanges' = TRUE
    /\ UNCHANGED <<handlers, storeVars, autoSaveVars, allNodes, creating, nodeSeq, effectVars>>

\* onSave of the edge dialog: the edge takes the new label and relationship type
OnSaveEdge(e, newLabel, relationshipTypeId) ==
    /\ e \in DOMAIN canvas.edges
    /\ canvas' = [canvas EXCEPT !.edges[e].label = newLabel,
                                !.edges[e].relationshipTypeId = relationshipTypeId]
    /\ hasUnsavedChanges' = TRUE
    /\ UNCHANGED <<handlers, storeVars, autoSaveVars, allNodes, creating, nodeSeq, effectVars>>

\* onDelete of the edge dialog
OnDeleteEdge(e) ==
    /\ e \in DOMAIN canvas.edges
    /\ canvas' = [canvas EXCEPT !.edges = Without(@, {e})]
    /\ hasUnsavedChanges' = TRUE
    /\ UNCHANGED <<handlers, storeVars, autoSaveVars, allNodes, creating, nodeSeq, effectVars>>

\* what the trigger effect depends on
Rendered == [canvas |-> canvas, unsaved |-> hasUnsavedChanges]

\* the effect on [nodes, edges, isLoading, hasUnsavedChanges, dagId], run after a
\* render that changed one of them: trigger() when the canvas has a node and
\* hasUnsavedChanges is set
TriggerEffect ==
    /\ effectSeen # Rendered
    /\ effectSeen' = Rendered
    /\ IF DOMAIN canvas.nodes # {} /\ hasUnsavedChanges
       THEN TriggerTimer("graph")
       ELSE UNCHANGED autoSaveVars
    /\ UNCHANGED <<handlers, storeVars, canvas, allNodes, creating, nodeSeq, hasUnsavedChanges,
                   requested>>

\* a timer of the editor's AutoSave fires: save(), whose onSave sends the canvas
\* the refs hold to saveDAG
EditorTimerFires ==
    /\ \E t \in timers : Save(timers \ {t})
    /\ requested' = IF AlreadySaving(isSaving) THEN requested ELSE canvas
    /\ UNCHANGED <<handlers, storeVars, canvas, allNodes, creating, nodeSeq, hasUnsavedChanges,
                   effectSeen>>

\* the saveDAG promise settles: onSaveSuccess clears hasUnsavedChanges, onSaveError
\* leaves it
EditorSaveSettles ==
    /\ \E outcome \in {"succeeded", "failed"} :
          /\ Settled(outcome)
          /\ hasUnsavedChanges' = IF outcome = "succeeded" THEN FALSE
                                  ELSE hasUnsavedChanges
    /\ UNCHANGED <<handlers, storeVars, canvas, allNodes, creating, nodeSeq, effectVars>>

\* the edits of the user: a drag of the root or of n1, a connection n1 -> n2, a
\* relabel, an edge deletion, a node for entity e1 once its node was deleted
MoveNode == \E n \in {"n0", "n1"} : OnNodesChange(n, Moved)

ConnectOnCanvas == HandleConfirmConnection("n1", "n2", "knows")

RelabelEdge == \E e \in DOMAIN canvas.edges : OnSaveEdge(e, "owes", Undef)

RemoveEdge == \E e \in DOMAIN canvas.edges : OnDeleteEdge(e)

CreateOnCanvas == CanvasCreateNodeFromEntity("e1") /\ UNCHANGED creating

UserEdit ==
    MoveNode \/ ConnectOnCanvas \/ RelabelEdge \/ RemoveEdge \/ DeleteNode \/ CreateOnCanvas

NextEditor ==
    \/ MoveNode \/ ConnectOnCanvas \/ RelabelEdge \/ RemoveEdge \/ DeleteNode
    \/ CreateOnCanvas \/ TriggerEffect \/ EditorTimerFires \/ EditorSaveSettles

SpecEditor == Init /\ [][NextEditor]_vars

\* React runs the effect after the render, every pending timer fires, every
\* saveDAG promise settles
FairEditor ==
    /\ SpecEditor
    /\ WF_vars(TriggerEffect)
    /\ WF_vars(EditorTimerFires)
    /\ WF_vars(EditorSaveSettles)

\* C30: once the user stops editing, a saveGraph request that carries the canvas as
\* the edits left it is eventually issued by the auto-save
C30_EditsEventuallySaved ==
    <>[][~UserEdit]_vars => <>[](requested = canvas)

-----------------------------------------------------------------------------
(* The localStorage backup of the auto-save *)

\* C31: from a trigger(data) until a save that started after it has succeeded, the
\* backup item exists
C31_BackupUntilSaved == unsavedTrigger # "none" => backup

\* the part of C31 about failed saves: a save that fails leaves the backup as it was
FailedSaveKeepsBackup == [][(saveLog' = "failed") => backup' = backup]_vars

-----------------------------------------------------------------------------
(* Events created, moved to another day, deleted and reordered *)

\* an edit that keeps the event's links and sets its date
MoveRequests ==
    {EventRequest("Paid", date, "n1", Undef, NoList, Undef) :
        date \in {"2024-03-01", "2024-03-02"}}

MoveEvent == \E id \in DOMAIN events, req \in MoveRequests : UpdateEvent(id, req, FALSE)

\* a reorder that lists every event of the day once, as the timeline sends it
ReorderWholeDay ==
    \E date \in {"2024-03-01", "2024-03-02"} :
        \E ids \in Orderings(EventsOnDay("g1", ParseDate(date))) :
            ReorderEvents("g1", date, List(ids))

NextDays == SubmitDated \/ MoveEvent \/ RemoveEvent \/ ReorderWholeDay

SpecDays == Init /\ [][NextDays]_vars

\* C32: no two events of one graph on the same calendar date have the same sortOrder
C32_SameDayOrdersDistinct ==
    \A a \in DOMAIN events : \A b \in DOMAIN events \ {a} :
        (/\ events[a].dagId = events[b].dagId
         /\ events[a].date # NullDate
         /\ events[b].date # NullDate
         /\ events[a].date.day = events[b].date.day)
            => events[a].sortOrder # events[b].sortOrder

-----------------------------------------------------------------------------
(* Provenance links under saves that delete edges *)

\* the editor's save after edges were removed on the canvas: the nodes as loaded
\* and any of the stored edges
SaveKeptEdges ==
    LET echoNodes == EchoNodes("g1")
        echoEdges == EchoEdges("g1")
    IN  \E keep \in SUBSET DOMAIN echoEdges :
            SaveGraph("g1", echoNodes, [e \in keep |-> echoEdges[e]], FALSE)

\* the timeline's save after node n2 was removed: it sends no edge
SaveWithoutNode ==
    LET echoNodes == EchoNodes("g1")
    IN  SaveGraph("g1", Without(echoNodes, {"n2"}), Empty, FALSE)

NextProvenance ==
    SubmitEndpoints \/ EditEvent \/ RemoveEvent \/ SaveKeptEdges \/ SaveWithoutNode

SpecProvenance == Init /\ [][NextProvenance]_vars

\* an event's createdEdgeId names a stored edge of the event's graph that was
\* created from that event
LinkResolves(v) ==
    LET id == events[v].createdEdgeId
    IN  /\ id \in DOMAIN edges
        /\ edges[id].dagId = events[v].dagId
        /\ edges[id].createdFromEventId = v

-----------------------------------------------------------------------------
(* Concurrent POST /api/events: each await of the handler is a point where
   another request's handler may run *)

HandlerIds == {"h1", "h2"}

\* POST /api/events up to the answer of dAGEdge.findFirst: the event is stored;
\* a handler that found no edge on the pair is left waiting to insert one
CreateEventCheck(h, req) ==
    LET r == CreateEventResult([req EXCEPT !.createEdge = Undef], FALSE)
        derives == /\ r.status = 200
                   /\ EdgeRequested(req)
                   /\ ~EdgeExists(edges, req.dagId, req.sourceNodeId, req.targetNodeId)
    IN  /\ h \notin DOMAIN handlers
        /\ events' = r.events
        /\ eventTypes' = r.types
        /\ eventSeq' = r.seq
        /\ IF derives
           THEN /\ handlers' = With(handlers, h,
                                    [op |-> "createEvent", req |-> req, event |-> r.event])
                /\ UNCHANGED resp
           ELSE /\ resp' = [op |-> "createEvent", status |-> r.status, createdEdge |-> Null]
                /\ UNCHANGED handlers
        /\ UNCHANGED <<dags, roles, entities, nodes, edges>>
        /\ UNCHANGED <<autoSaveVars, relationshipTypes, viewVars>>

\* the rest of the handler: dAGEdge.create, event.update({createdEdgeId}), the answer
CreateEventInsert(h) ==
    /\ h \in DOMAIN handlers
    /\ handlers[h].op = "createEvent"
    /\ LET req == handlers[h].req
           id == handlers[h].event
           edgeId == DerivedEdgeId(id)
       IN  /\ edges' = With(edges, edgeId, DerivedEdge(req.dagId, req, id))
           /\ IF id \in DOMAIN events
              THEN /\ events' = [events EXCEPT ![id].createdEdgeId = edgeId]
                   /\ resp' = [op |-> "createEvent", status |-> 200, createdEdge |-> edgeId]
              ELSE /\ UNCHANGED events
                   /\ resp' = [op |-> "createEvent", status |-> 500, createdEdge |-> Null]
    /\ handlers' = Without(handlers, {h})
    /\ UNCHANGED <<dags, roles, entities, nodes, eventTypes, eventSeq>>
    /\ UNCHANGED <<autoSaveVars, relationshipTypes, viewVars>>

BeginSubmit ==
    /\ eventSeq < MaxEvents
    /\ \E h \in HandlerIds, req \in EndpointRequests : CreateEventCheck(h, req)

FinishSubmit == \E h \in HandlerIds : CreateEventInsert(h)

NextDerive == BeginSubmit \/ FinishSubmit

SpecDerive == Init /\ [][NextDerive]_vars

\* C34: when createEvent requests with createEdge set for the same ordered pair
\* run with their existence checks and edge inserts interleaved, at most one edge
\* for that pair is stored once they have answered
C34_OneDerivedEdgePerPair ==
    handlers = Empty =>
        \A a, b \in DOMAIN edges :
            (/\ edges[a].dagId = edges[b].dagId
             /\ edges[a].sourceId = edges[b].sourceId
             /\ edges[a].targetId = edges[b].targetId) => a = b

-----------------------------------------------------------------------------
(* Concurrent GET /api/dag/[id] *)

\* the ids the store generates for the rows the handlers create
RootNodeIds == <<"s1", "s2", "s3">>

RootEntityIds == <<"x1", "x2", "x3", "x4">>

HasRoot(ns, g) == \E n \in DOMAIN ns : ns[n].dagId = g /\ ns[n].type = "root"

LoadResponse(st, g, status) ==
    [op |-> "load", status |-> status, dag |-> g,
     nodes |-> IF status = 200 THEN [n \in NodesOf(st, g) |-> HydrateNode(st, n)] ELSE Empty,
     edges |-> IF status = 200 THEN [e \in EdgesOf(g) |-> HydrateEdge(edges[e])] ELSE Empty]

\* GET /api/dag/[id] up to the answer of dAG.findUnique: a handler that found the
\* graph with a root answers; one that found no graph or no root is left waiting
\* to create what it missed
LoadGraphFind(h, g) ==
    /\ h \notin DOMAIN handlers
    /\ IF g \in DOMAIN dags /\ HasRoot(nodes, g)
       THEN /\ resp' = LoadResponse(Store, g, 200)
            /\ UNCHANGED handlers
       ELSE /\ handlers' = With(handlers, h,
                                [op |-> "load", dag |-> g, found |-> g \in DOMAIN dags])
            /\ UNCHANGED resp
    /\ UNCHANGED <<dags, roles, entities, nodes, edges, events, eventTypes, eventSeq>>
    /\ UNCHANGED <<autoSaveVars, relationshipTypes, viewVars>>

\* the rest of the handler: the root role, the root entity, then dAG.create with its
\* root node (which the graph's primary key rejects when the graph exists by now)
\* or dAGNode.create for the graph it found rootless, the reload and the answer
LoadGraphCreate(h) ==
    /\ h \in DOMAIN handlers
    /\ handlers[h].op = "load"
    /\ HasFresh(RootNodeIds, DOMAIN nodes)
    /\ HasFresh(RootEntityIds, DOMAIN entities)
    /\ LET g == handlers[h].dag
           e == FreshId(RootEntityIds, DOMAIN entities)
           n == FreshId(RootNodeIds, DOMAIN nodes)
           rs == WithRootRole(roles)
           name == IF handlers[h].found /\ g \in DOMAIN dags
                   THEN dags[g].name ELSE "Investigation " \o g
           es == With(entities, e,
                      [name |-> name, roleId |-> RootRoleId(rs), description |-> Null])
           ns == With(nodes, n,
                      [dagId |-> g, entityId |-> e, x |-> 0, y |-> 0, type |-> "root"])
           rejected == IF handlers[h].found THEN g \notin DOMAIN dags ELSE g \in DOMAIN dags
           ds == IF g \in DOMAIN dags THEN dags ELSE With(dags, g, [name |-> name])
           st == [dags |-> ds, roles |-> rs, entities |-> es, nodes |-> ns]
       IN  /\ roles' = rs
           /\ entities' = es
           /\ IF rejected
              THEN /\ resp' = LoadResponse(st, g, 500)
                   /\ UNCHANGED <<dags, nodes>>
              ELSE /\ dags' = ds
                   /\ nodes' = ns
                   /\ resp' = LoadResponse(st, g, 200)
    /\ handlers' = Without(handlers, {h})
    /\ UNCHANGED <<edges, events, eventTypes, eventSeq>>
    /\ UNCHANGED <<autoSaveVars, relationshipTypes, viewVars>>

\* a save that sends g1's root as a custom node, the other nodes as loaded or moved
SaveRetyped ==
    LET echo == EchoNodes("g1")
    IN  \E p \in {Origin, Moved} :
            SaveGraph("g1", [n \in DOMAIN echo |->
                                IF n = "n0" THEN ClientNode("e0", Moved, "custom")
                                ELSE [echo[n] EXCEPT !.position = p]],
                      EchoEdges("g1"), FALSE)

BeginLoad == \E h \in HandlerIds, g \in {"g1", "g2", "gX"} : LoadGraphFind(h, g)

FinishLoad == \E h \in HandlerIds : LoadGraphCreate(h)

NextRoots == SaveRetyped \/ BeginLoad \/ FinishLoad

SpecRoots == Init /\ [][NextRoots]_vars

\* C35: once the loadGraph requests for a rootless or unknown graph have answered,
\* with their root checks and root creations interleaved, the graph has exactly
\* one root node
C35_ConcurrentLoadsOneRoot ==
    (handlers = Empty /\ resp.op = "load") => Cardinality(RootsOf(resp.dag)) = 1

\* the same for a graph id that was unknown to both requests
UnknownGraphOneRoot ==
    (handlers = Empty /\ "gX" \in DOMAIN dags) => Cardinality(RootsOf("gX")) = 1

-----------------------------------------------------------------------------
(* Participants of an event across submissions and edits *)

\* submissions with a source node and a participant list: absent, empty, one node,
\* a node and a blank id, an unknown node
ParticipantSubmissions ==
    {EventRequest("Paid", "2024-03-01", "n1", Undef, list, Undef) :
        list \in {NoList, List(<<>>), List(<<"n1">>), List(<<"n1", " ">>),
                  List(<<"", "n0">>), List(<<"nX">>)}}

\* edits with a participant list: absent, empty, blank ids only, other nodes, a node
\* of another graph, an unknown node
ParticipantEdits ==
    {EventRequest("Seen", "2024-03-02", "n1", Undef, list, Undef) :
        list \in {NoList, List(<<>>), List(<<" ", "">>), List(<<"n2">>),
                  List(<<"", "n2", "n0">>), List(<<"m0">>), List(<<"nX">>)}}

SubmitParticipants ==
    /\ eventSeq < MaxEvents
    /\ \E req \in ParticipantSubmissions : CreateEvent(req, FALSE)

EditParticipants ==
    \E id \in DOMAIN events, req \in ParticipantEdits : UpdateEvent(id, req, FALSE)

NextParticipants == SubmitParticipants \/ EditParticipants

SpecParticipants == Init /\ [][NextParticipants]_vars

\* the ids of a list that are neither empty nor whitespace
NonBlankIds(ids) == {ids[i] : i \in 1..Len(ids)} \ {"", " "}

\* C36: a successful updateEvent that supplies participantNodeIds leaves the event
\* with exactly the supplied non-blank ids (none for an empty list), one that omits
\* the list leaves the participants as they were, and a successful createEvent
\* connects exactly the supplied non-blank ids
C36_ParticipantsReplaced ==
    [][/\ \A id \in DOMAIN events, req \in ParticipantEdits :
            (UpdateEvent(id, req, FALSE) /\ resp'.status = 200) =>
                events'[id].participants =
                    IF req.participantNodeIds.given
                    THEN NonBlankIds(req.participantNodeIds.ids)
                    ELSE events[id].participants
       /\ \A req \in ParticipantSubmissions :
            (CreateEvent(req, FALSE) /\ resp'.status = 200) =>
                events'[EventId(eventSeq')].participants =
                    IF req.participantNodeIds.given
                    THEN NonBlankIds(req.participantNodeIds.ids)
                    ELSE {}]_vars

\* an edit replaced an event's participants: the event carries the edit's title
\* and exactly the two nodes the edit named next to a blank id
C36_Witness ==
    /\ resp.op = "updateEvent"
    /\ resp.status = 200
    /\ \E v \in DOMAIN events :
          /\ events[v].title = "Seen"
          /\ events[v].participants = {"n2", "n0"}
    /\ \E v \in DOMAIN events :
          /\ events[v].title = "Paid"
          /\ events[v].participants = {"n1"}

-----------------------------------------------------------------------------
(* nodePositioning: where a new node is placed *)

\* the size of the browser window
Window == [innerWidth |-> 1000, innerHeight |-> 800]

MinOf(S) == CHOOSE m \in S : \A k \in S : m <= k

\* a placement that takes the corner of the bounding box for its centre
CalculateSmartPositionCorner(relatedNodes, allNodes_, viewport) ==
    IF Len(relatedNodes) = 0 THEN Origin
    ELSE [x |-> MinOf({relatedNodes[i].position.x : i \in 1..Len(relatedNodes)}) + 250,
          y |-> MinOf({relatedNodes[i].position.y : i \in 1..Len(relatedNodes)}) + 250]

\* calculateSmartPosition. The divisions are exact for the coordinates, zoom and
\* window sizes drawn below
CalculateSmartPosition(relatedNodes, allNodes_, viewport) ==
    IF Len(relatedNodes) = 0
    THEN IF viewport.given
         THEN [x |-> (0 - viewport.x) \div viewport.zoom
                        + (Window.innerWidth \div 2) \div viewport.zoom,
               y |-> (0 - viewport.y) \div viewport.zoom
                        + (Window.innerHeight \div 2) \div viewport.zoom]
         ELSE [x |-> 0, y |-> 0]
    ELSE IF Len(relatedNodes) = 1
    THEN LET relatedNode == relatedNodes[1]
             offset == 300
         IN  [x |-> relatedNode.position.x + offset,
              y |-> relatedNode.position.y + offset \div 2]
    ELSE LET xs == {relatedNodes[i].position.x : i \in 1..Len(relatedNodes)}
             ys == {relatedNodes[i].position.y : i \in 1..Len(relatedNodes)}
             centerX == (MinOf(xs) + Max(xs)) \div 2
             centerY == (MinOf(ys) + Max(ys)) \div 2
             offset == 250
         IN  [x |-> centerX + offset, y |-> centerY + offset]

\* how many related nodes a call names at most
MaxRelated == 3

\* node positions on a grid of even coordinates, negative ones included
GridPoints == {[x |-> x, y |-> y] : x \in {-200, 0, 400}, y \in {0, 100}}

PlacedNodes == {[position |-> p] : p \in GridPoints}

RelatedLists == UNION {[1..n -> PlacedNodes] : n \in 0..MaxRelated}

\* the allNodes argument: no node, one node, the nodes of the loaded view
AllNodesLists == {<<>>, <<[position |-> [x |-> 400, y |-> 100]]>>,
                  <<[position |-> Origin], [position |-> Moved]>>}

\* the optional viewport argument: absent, or panned and zoomed
Viewports == {[given |-> FALSE, x |-> 0, y |-> 0, zoom |-> 1],
              [given |-> TRUE, x |-> -200, y |-> 100, zoom |-> 2]}

SmartPositionCalls ==
    [op : {"calculateSmartPosition"}, relatedNodes : RelatedLists,
     allNodes : AllNodesLists, viewport : Viewports, returned : {FALSE},
     result : {Origin}]

InitPlacement == \E call \in SmartPositionCalls : InitWith(call)

Place ==
    /\ resp.op = "calculateSmartPosition"
    /\ ~resp.returned
    /\ resp' = [resp EXCEPT
                   !.returned = TRUE,
                   !.result = CalculateSmartPosition(resp.relatedNodes, resp.allNodes,
                                                     resp.viewport)]
    /\ UNCHANGED <<dags, roles, entities, nodes, edges, events, eventTypes, eventSeq>>
    /\ UNCHANGED <<handlers, autoSaveVars, relationshipTypes, viewVars>>

SpecPlacement == InitPlacement /\ [][Place]_vars

\* (x, y) is the centre of the bounding box of the positions ps
IsBoxCentre(x, y, ps) ==
    /\ \E lo, hi \in ps :
          /\ \A p \in ps : lo.x <= p.x /\ p.x <= hi.x
          /\ x - lo.x = hi.x - x
    /\ \E lo, hi \in ps :
          /\ \A p \in ps : lo.y <= p.y /\ p.y <= hi.y
          /\ y - lo.y = hi.y - y

\* C37: calculateSmartPosition returns (0,0) for no related node and no viewport,
\* (x+300, y+150) for one related node at (x,y), the centre of the bounding box
\* plus (250,250) for two or more, and the same for every allNodes argument
C37_SmartPosition ==
    (resp.op = "calculateSmartPosition" /\ resp.returned) =>
        LET related == resp.relatedNodes
            ps == {related[i].position : i \in 1..Len(related)}
            result == resp.result
        IN  /\ (Len(related) = 0 /\ ~resp.viewport.given) => result = [x |-> 0, y |-> 0]
            /\ Len(related) = 1 =>
                  result = [x |-> related[1].position.x + 300,
                            y |-> related[1].position.y + 150]
            /\ Len(related) >= 2 => IsBoxCentre(result.x - 250, result.y - 250, ps)
            /\ \A others \in AllNodesLists :
                  CalculateSmartPosition(related, others, resp.viewport) = result

\* a call with three related nodes at different places and a non-empty allNodes
\* has returned
C37_Witness ==
    /\ resp.op = "calculateSmartPosition"
    /\ resp.returned
    /\ Len(resp.relatedNodes) = 3
    /\ resp.relatedNodes[1].position # resp.relatedNodes[2].position
    /\ resp.relatedNodes[1].position.x < resp.relatedNodes[3].position.x
    /\ Len(resp.allNodes) > 0

(* findNonConflictingPosition. Its candidates lie on circles of radius 150 and 300
   at multiples of 45 degrees, so positions are held in fixed point, UnitScale
   steps to a unit, and the cosines in ten-thousandths *)

UnitScale == 10

\* Math.cos and Math.sin of attempts * 45 degrees, times 10000
Cos45(k) == <<10000, 7071, 0, -7071, -10000, -7071, 0, 7071>>[(k % 8) + 1]

Sin45(k) == Cos45(k + 6)

\* v / 10000 rounded to the nearest integer
Scaled(v) == (v + 5000) \div 10000

\* a conflict test that also rejects a node at exactly minDistance
HasPositionConflictInclusive(position, allNodes_, minDistance) ==
    \E node \in allNodes_ :
        LET dx == node.position.x - position.x
            dy == node.position.y - position.y
        IN  dx * dx + dy * dy <= minDistance * minDistance

\* hasPositionConflict: some node is nearer than minDistance; the square root is
\* compared through the squares
HasPositionConflict(position, allNodes_, minDistance) ==
    \E node \in allNodes_ :
        LET dx == node.position.x - position.x
            dy == node.position.y - position.y
        IN  dx * dx + dy * dy < minDistance * minDistance

MinDistance == 200 * UnitScale

\* the position the loop body computes when attempts candidates were tried before
SpiralCandidate(desiredPosition, attempts) ==
    LET step == 150 * UnitScale
        radius == step * (1 + attempts \div 8)
    IN  [x |-> desiredPosition.x + Scaled(radius * Cos45(attempts)),
         y |-> desiredPosition.y + Scaled(radius * Sin45(attempts))]

\* the largest maxAttempts a call is given: the default of the function
MaxSpiralAttempts == 10

At(x, y) == [position |-> [x |-> x * UnitScale, y |-> y * UnitScale]]

\* nodes at the desired place, 100, 200 and 300 units to its right, above it, on
\* the diagonal and far away
SpiralNodes ==
    {At(0, 0), At(100, 0), At(200, 0), At(300, 0), At(0, 300), At(200, 200), At(1000, 1000)}

FindCalls ==
    [op : {"findNonConflictingPosition"},
     desiredPosition : {At(0, 0).position},
     allNodes : SUBSET SpiralNodes,
     maxAttempts : {0, 1, 3, MaxSpiralAttempts},
     position : {At(0, 0).position},
     attempts : {0},
     returned : {FALSE}]

InitSpiral == \E call \in FindCalls : InitWith(call)

\* one iteration of the while loop
SpiralStep ==
    /\ resp.op = "findNonConflictingPosition"
    /\ ~resp.returned
    /\ HasPositionConflict(resp.position, resp.allNodes, MinDistance)
    /\ resp.attempts < resp.maxAttempts
    /\ resp' = [resp EXCEPT
                   !.position = SpiralCandidate(resp.desiredPosition, resp.attempts),
                   !.attempts = @ + 1]
    /\ UNCHANGED <<dags, roles, entities, nodes, edges, events, eventTypes, eventSeq>>
    /\ UNCHANGED <<handlers, autoSaveVars, relationshipTypes, viewVars>>

\* the loop condition fails: return position
SpiralReturn ==
    /\ resp.op = "findNonConflictingPosition"
    /\ ~resp.returned
    /\ ~(/\ HasPositionConflict(resp.position, resp.allNodes, MinDistance)
         /\ resp.attempts < resp.maxAttempts)
    /\ resp' = [resp EXCEPT !.returned = TRUE]
    /\ UNCHANGED <<dags, roles, entities, nodes, edges, events, eventTypes, eventSeq>>
    /\ UNCHANGED <<handlers, autoSaveVars, relationshipTypes, viewVars>>

NextSpiral == SpiralStep \/ SpiralReturn

SpecSpiral == InitSpiral /\ [][NextSpiral]_vars

\* the loop is synchronous code: once called it runs until it returns
FairSpiral == SpecSpiral /\ WF_vars(NextSpiral)

\* position p is at least 200 units from every node of ns
FarFromAll(p, ns) ==
    \A n \in ns :
        (n.position.x - p.x) * (n.position.x - p.x)
            + (n.position.y - p.y) * (n.position.y - p.y) >= MinDistance * MinDistance

\* what a returned call must satisfy
SpiralResult ==
    LET desired == resp.desiredPosition
        tried == {SpiralCandidate(desired, k) : k \in 0..(resp.maxAttempts - 1)}
        last == IF resp.maxAttempts = 0 THEN desired
                ELSE SpiralCandidate(desired, resp.maxAttempts - 1)
    IN  IF FarFromAll(desired, resp.allNodes)
        THEN resp.position = desired /\ resp.attempts = 0
        ELSE \/ resp.position \in tried /\ FarFromAll(resp.position, resp.allNodes)
             \/ resp.attempts = resp.maxAttempts /\ resp.position = last

\* C38: findNonConflictingPosition returns, after at most maxAttempts candidate
\* steps; it returns the desired position when that is at least 200 units from
\* every node, and otherwise a candidate at least 200 units from every node or,
\* with maxAttempts steps made, the last candidate tried
C38_SpiralTerminates ==
    /\ [](resp.attempts <= resp.maxAttempts)
    /\ <>(resp.returned)
    /\ [](resp.returned => SpiralResult)

\* a call returned a second-circle candidate: the eight candidates of the first
\* circle were all within 200 units of a node
C38_Witness ==
    /\ resp.op = "findNonConflictingPosition"
    /\ resp.returned
    /\ resp.attempts = 9
    /\ resp.maxAttempts = MaxSpiralAttempts
    /\ FarFromAll(resp.position, resp.allNodes)

\* a call gave up: maxAttempts candidates tried and the last one still conflicts
SpiralGaveUp ==
    /\ resp.op = "findNonConflictingPosition"
    /\ resp.returned
    /\ resp.maxAttempts = MaxSpiralAttempts
    /\ resp.attempts = resp.maxAttempts
    /\ ~FarFromAll(resp.position, resp.allNodes)

=============================================================================
